---- MODULE Spec2Model ----
(***************************************************************************)
(* A model of the rusk task runner (wensheng/rusk): the variable           *)
(* interpolator, the condition evaluator, the command executor and the     *)
(* task orchestrator of src/src/runner.                                    *)
(*                                                                         *)
(* Strings are sequences of one-character strings, so that the regular     *)
(* expression of interpolate.rs is modelled character by character.        *)
(* A variable bag (HashMap<String, String>) and the process environment    *)
(* are functions from names to values.                                     *)
(***************************************************************************)
EXTENDS Integers, Sequences, FiniteSets, TLC

VARIABLES
    task,      \* the Task whose execute() is running (task.rs:14-50)
    ctx,       \* the Context: vars and task_stack (context.rs:10-28)
    env,       \* the process environment (std::env)
    pc,        \* position of the control flow inside Task::execute
    path,      \* "run" while execute_run_items runs, "finally" afterwards
    item,      \* index of the run-item being executed
    idx,       \* index inside the current stage of the run-item
    result,    \* `result` of task.rs:138, the outcome of the main path
    fres,      \* the outcome of execute_finally_items (task.rs:143)
    ret,       \* the value Task::execute returned
    log,       \* history: every step taken, in order
    applied,   \* history: the bag and environment each set-environment entry saw
    entry,     \* history: the context and environment on entry to execute
    config,    \* Config.tasks, the task registry of the configuration (types.rs:21)
    cli,       \* the command line application: its position and its outcome
    call,      \* the last call of a function of the library and what it returned
    text,      \* the string handed to the interpolator
    children   \* the child processes that are alive, oldest first

vars == <<task, ctx, env, pc, path, item, idx, result, fres, ret, log, applied, entry,
          config, cli, call, text, children>>

----------------------------------------------------------------------------
(* Bounds of the model *)

MaxRunItems == 2
MaxFinallyItems == 1

(* The ceiling of interpolate.rs:58 *)
RecursionCeiling == 100

----------------------------------------------------------------------------
(* Option<T>, Result<T, E> and the error values *)

Some(v) == [some |-> TRUE, val |-> v]
None == [some |-> FALSE, val |-> <<>>]
SomeCode(n) == [some |-> TRUE, val |-> n]
NoCode == [some |-> FALSE, val |-> 0]

NoError == [kind |-> "none", code |-> NoCode, name |-> ""]
CommandFailed(code) == [kind |-> "CommandFailed", code |-> code, name |-> ""]
InvalidOption(name) == [kind |-> "InvalidOption", code |-> NoCode, name |-> name]

Ok == [ok |-> TRUE, err |-> NoError]
Err(e) == [ok |-> FALSE, err |-> e]
Pending == [ok |-> FALSE, err |-> [kind |-> "pending", code |-> NoCode, name |-> ""]]

(* No function of the library has been called; the application is not running *)
NoCall == [fn |-> "none", arg |-> <<>>, res |-> Pending]
Idle == [pc |-> "idle", invoked |-> None, result |-> Pending]

----------------------------------------------------------------------------
(* HashMap operations *)

EmptyMap == [k \in {} |-> <<>>]
insert(m, k, v) == [x \in (DOMAIN m) \cup {k} |-> IF x = k THEN v ELSE m[x]]
remove(m, k) == [x \in (DOMAIN m) \ {k} |-> m[x]]
contains_key(m, k) == k \in DOMAIN m

----------------------------------------------------------------------------
(* interpolate.rs *)

Placeholder(name) == <<"$", "{">> \o name \o <<"}">>

(* Position of the first "}" at or after position i, 0 when there is none *)
RECURSIVE FirstClose(_, _)
FirstClose(s, i) ==
    IF i > Len(s) THEN 0
    ELSE IF s[i] = "}" THEN i
    ELSE FirstClose(s, i + 1)

(* Whether the regex \$\{([^}]+)\} matches at position i of s *)
MatchesAt(s, i) ==
    /\ i + 3 <= Len(s)
    /\ s[i] = "$"
    /\ s[i + 1] = "{"
    /\ s[i + 2] # "}"
    /\ FirstClose(s, i + 2) # 0

(* Mutant: a name met again is substituted again *)
replace_capture_again(var_name, bag, penv, seen, changed) ==
    IF contains_key(bag, var_name)
    THEN [out |-> bag[var_name], seen |-> seen \cup {var_name}, changed |-> TRUE]
    ELSE IF contains_key(penv, var_name)
    THEN [out |-> penv[var_name], seen |-> seen \cup {var_name}, changed |-> TRUE]
    ELSE [out |-> Placeholder(var_name), seen |-> seen \cup {var_name},
          changed |-> changed]

(* The closure handed to replace_all: the replacement of one captured name,
   with the updated `seen` and `changed` *)
replace_capture(var_name, bag, penv, seen, changed) ==
    IF var_name \in seen
    THEN [out |-> Placeholder(var_name), seen |-> seen, changed |-> changed]
    ELSE IF contains_key(bag, var_name)
    THEN [out |-> bag[var_name], seen |-> seen \cup {var_name}, changed |-> TRUE]
    ELSE IF contains_key(penv, var_name)
    THEN [out |-> penv[var_name], seen |-> seen \cup {var_name}, changed |-> TRUE]
    ELSE [out |-> Placeholder(var_name), seen |-> seen \cup {var_name},
          changed |-> changed]

(* Position of the leftmost match at or after position i, 0 when there is none *)
NextMatch(s, i) ==
    IF \E j \in i..Len(s) : MatchesAt(s, j)
    THEN CHOOSE j \in i..Len(s) : MatchesAt(s, j) /\ \A k \in i..(j - 1) : ~MatchesAt(s, k)
    ELSE 0

(* A pass of replace_all is a scan of the text from left to right; its state
   st is what it has built (out), `seen` and `changed` of the closure, and the
   position where it looks for its next match (next) *)

(* The closure returned r for the match that ends at `close` *)
scan_match(st, close, r) ==
    [out |-> st.out \o r.out, seen |-> r.seen, changed |-> r.changed, next |-> close + 1]

(* Mutant: a "$" outside a match is not copied *)
scan_position_dollar_dropped(s, p, bag, penv, st) ==
    IF p < st.next THEN st
    ELSE IF MatchesAt(s, p)
    THEN scan_match(st, FirstClose(s, p + 2),
                    replace_capture(SubSeq(s, p + 2, FirstClose(s, p + 2) - 1),
                                    bag, penv, st.seen, st.changed))
    ELSE IF s[p] = "$" THEN [st EXCEPT !.next = p + 1]
    ELSE [st EXCEPT !.out = Append(@, s[p]), !.next = p + 1]

(* Mutant: a "$" outside a match is copied twice *)
scan_position_dollar_doubled(s, p, bag, penv, st) ==
    IF p < st.next THEN st
    ELSE IF MatchesAt(s, p)
    THEN scan_match(st, FirstClose(s, p + 2),
                    replace_capture(SubSeq(s, p + 2, FirstClose(s, p + 2) - 1),
                                    bag, penv, st.seen, st.changed))
    ELSE IF s[p] = "$" THEN [st EXCEPT !.out = @ \o <<"$", "$">>, !.next = p + 1]
    ELSE [st EXCEPT !.out = Append(@, s[p]), !.next = p + 1]

(* Position p of the text: it lies inside the match replaced last; or a match
   starts at it, and the closure is called with the captured name; or its
   character is copied. Matches are found left to right and do not overlap *)
scan_position(s, p, bag, penv, st) ==
    IF p < st.next THEN st
    ELSE IF MatchesAt(s, p)
    THEN scan_match(st, FirstClose(s, p + 2),
                    replace_capture(SubSeq(s, p + 2, FirstClose(s, p + 2) - 1),
                                    bag, penv, st.seen, st.changed))
    ELSE [st EXCEPT !.out = Append(@, s[p]), !.next = p + 1]

(* The positions lo..hi in order: the first half, then the second half from
   the state the first half left; nothing is done when they all lie inside
   the match replaced last *)
RECURSIVE scan(_, _, _, _, _, _)
scan(s, lo, hi, bag, penv, st) ==
    IF lo > hi \/ st.next > hi THEN st
    ELSE IF lo = hi THEN scan_position(s, lo, bag, penv, st)
    ELSE scan(s, ((lo + hi) \div 2) + 1, hi, bag, penv,
              scan(s, lo, (lo + hi) \div 2, bag, penv, st))

(* What the pass returns and what it leaves in `seen` and `changed` *)
pass_result(st) == [out |-> st.out, seen |-> st.seen, changed |-> st.changed]

(* One replace_all pass over s from position i *)
replace_all(s, i, bag, penv, seen, changed) ==
    pass_result(scan(s, i, Len(s), bag, penv,
                     [out |-> <<>>, seen |-> seen, changed |-> changed, next |-> i]))

(* Mutant: one pass only, the values substituted are not looked at again *)
interpolate_loop_single_pass(s, bag, penv, seen) ==
    [ok |-> TRUE, val |-> replace_all(s, 1, bag, penv, seen, FALSE).out, err |-> "none"]

(* One turn of the loop of interpolate, interpolate.rs:23-61: lp is the text
   and `seen` the loop has reached, and what it returned when it is over *)
loop_pass(bag, penv, lp) ==
    LET r == replace_all(lp.s, 1, bag, penv, lp.seen, FALSE)
    IN  IF ~r.changed
        THEN [lp EXCEPT !.done = TRUE,
                        !.res = [ok |-> TRUE, val |-> r.out, err |-> "none"]]
        ELSE IF Cardinality(r.seen) > RecursionCeiling
        THEN [lp EXCEPT !.done = TRUE,
                        !.res = [ok |-> FALSE, val |-> <<>>,
                                 err |-> "RecursiveInterpolation"]]
        ELSE [lp EXCEPT !.s = r.out, !.seen = r.seen]

(* The turns lo..hi of the loop, one after the other, until it is over *)
RECURSIVE loop_passes(_, _, _, _, _)
loop_passes(lo, hi, bag, penv, lp) ==
    IF lo > hi \/ lp.done THEN lp
    ELSE IF lo = hi THEN loop_pass(bag, penv, lp)
    ELSE loop_passes(((lo + hi) \div 2) + 1, hi, bag, penv,
                     loop_passes(lo, (lo + hi) \div 2, bag, penv, lp))

(* The loop of interpolate. A turn that is not the last adds a name to `seen`
   and leaves at most as many names there as the ceiling counts, so the loop
   is over after one turn more than the ceiling counts *)
interpolate_loop(s, bag, penv, seen) ==
    loop_passes(1, RecursionCeiling + 1, bag, penv,
                [s |-> s, seen |-> seen, done |-> FALSE,
                 res |-> [ok |-> FALSE, val |-> <<>>, err |-> "pending"]]).res

interpolate(s, bag, penv) == interpolate_loop(s, bag, penv, {})

(* interpolate(..).unwrap_or_else(|_| s.clone()) *)
interpolate_or_raw(s, bag, penv) ==
    LET r == interpolate(s, bag, penv)
    IN  IF r.ok THEN r.val ELSE s

----------------------------------------------------------------------------
(* The runtime types of task.rs *)

Simple(cmd) == [exec |-> cmd, print |-> cmd, quiet |-> FALSE, dir |-> None]
Complex(exec, quiet, dir) == [exec |-> exec, print |-> exec, quiet |-> quiet, dir |-> dir]

SubTask(name, options) == [name |-> name, options |-> options]

Always == [condition |-> "Always", left |-> <<>>, right |-> <<>>]
Equal(l, r) == [condition |-> "Equal", left |-> l, right |-> r]
NotEqual(l, r) == [condition |-> "NotEqual", left |-> l, right |-> r]
WhenCommand(cmd) == [condition |-> "Command", left |-> cmd, right |-> <<>>]
Exists(p) == [condition |-> "Exists", left |-> p, right |-> <<>>]
EnvSet(n) == [condition |-> "EnvSet", left |-> n, right |-> <<>>]
EnvNotSet(n) == [condition |-> "EnvNotSet", left |-> n, right |-> <<>>]
OptionSet(n) == [condition |-> "OptionSet", left |-> n, right |-> <<>>]
OptionNotSet(n) == [condition |-> "OptionNotSet", left |-> n, right |-> <<>>]

Run(when, commands, subtasks, set_environment) ==
    [when |-> when, commands |-> commands, subtasks |-> subtasks,
     set_environment |-> set_environment]

Task(name, bag, run, finally) ==
    [name |-> name, vars |-> bag, run |-> run, finally |-> finally]

----------------------------------------------------------------------------
(* context.rs *)

(* context.rs:46: the interpreter of Context::new() *)
Interpreter == <<"sh", "-c">>

(* Mutant: the name is left on the stack *)
pop_task_forgotten(stack) == stack

(* Mutant: only the top of the stack is compared *)
is_task_in_stack_top(stack, task_name) ==
    stack # <<>> /\ stack[Len(stack)] = task_name

(* context.rs:92-105 *)
push_task(stack, task_name) == Append(stack, task_name)
pop_task(stack) == IF stack = <<>> THEN stack ELSE SubSeq(stack, 1, Len(stack) - 1)

is_task_in_stack(stack, task_name) == \E i \in 1..Len(stack) : stack[i] = task_name

set_var(c, key, value) == [c EXCEPT !.vars = insert(c.vars, key, value)]

----------------------------------------------------------------------------
(* command.rs: what the operating system does with a child is not decided by
   the program; oc is the outcome of Command::status() *)

ChildOutcomes == {"exit0", "exit1", "signal", "nospawn"}

(* command.rs:39-47: the interpreter, its arguments, then the command *)
command_argv(interpreter, exec_str) ==
    <<interpreter[1]>> \o SubSeq(interpreter, 2, Len(interpreter)) \o <<exec_str>>

(* Mutant: a child that exits with a code other than 0 is taken for a success *)
status_result_lenient(oc) ==
    CASE oc = "nospawn" -> Err(CommandFailed(NoCode))
      [] oc = "exit0" -> Ok
      [] oc = "exit1" -> Ok
      [] oc = "signal" -> Err(CommandFailed(NoCode))

(* command.rs:63-72: what execute_command makes of Command::status() *)
status_result(oc) ==
    CASE oc = "nospawn" -> Err(CommandFailed(NoCode))
      [] oc = "exit0" -> Ok
      [] oc = "exit1" -> Err(CommandFailed(SomeCode(1)))
      [] oc = "signal" -> Err(CommandFailed(NoCode))

(* The command returned before Command::status() was called *)
NotSpawned(res) == [res |-> res, spawn |-> FALSE, arg |-> <<>>, argv |-> <<>>]

(* Command::status() was called with argv *)
Spawned(res, argv) ==
    [res |-> res, spawn |-> TRUE, arg |-> argv[Len(argv)], argv |-> argv]

(* Mutant: the command is handed to the interpreter as it is written *)
execute_command_raw(cmd, c, penv, oc) ==
    IF ~interpolate(cmd.exec, c.vars, penv).ok
    THEN NotSpawned(Err(InvalidOption("command")))
    ELSE IF cmd.dir.some /\ ~interpolate(cmd.dir.val, c.vars, penv).ok
    THEN NotSpawned(Err(InvalidOption("dir")))
    ELSE Spawned(status_result(oc), command_argv(c.interpreter, cmd.exec))

execute_command(cmd, c, penv, oc) ==
    IF ~interpolate(cmd.exec, c.vars, penv).ok
    THEN NotSpawned(Err(InvalidOption("command")))
    ELSE IF cmd.dir.some /\ ~interpolate(cmd.dir.val, c.vars, penv).ok
    THEN NotSpawned(Err(InvalidOption("dir")))
    ELSE Spawned(status_result(oc),
                 command_argv(c.interpreter, interpolate(cmd.exec, c.vars, penv).val))

check_command(cmd_str, c, penv, oc) ==
    LET exec_str == interpolate(cmd_str, c.vars, penv)
    IN  IF ~exec_str.ok
        THEN [res |-> Err(InvalidOption("command")), val |-> FALSE, spawn |-> FALSE,
              arg |-> <<>>]
        ELSE IF oc = "nospawn"
        THEN [res |-> Err(CommandFailed(NoCode)), val |-> FALSE, spawn |-> TRUE,
              arg |-> exec_str.val]
        ELSE [res |-> Ok, val |-> (oc = "exit0"), spawn |-> TRUE, arg |-> exec_str.val]

----------------------------------------------------------------------------
(* when.rs: oc is the outcome of the probe of a Command condition, fs_exists
   is what the file system answers to an Exists condition *)

NoProbe(b) == [res |-> Ok, val |-> b, spawn |-> FALSE, arg |-> <<>>]

evaluate_when(when, c, penv, oc, fs_exists) ==
    LET l == interpolate_or_raw(when.left, c.vars, penv)
        r == interpolate_or_raw(when.right, c.vars, penv)
    IN  CASE when.condition = "Always" -> NoProbe(TRUE)
          [] when.condition = "Equal" -> NoProbe(l = r)
          [] when.condition = "NotEqual" -> NoProbe(l # r)
          [] when.condition = "Command" -> check_command(when.left, c, penv, oc)
          [] when.condition = "Exists" -> NoProbe(fs_exists)
          [] when.condition = "EnvSet" -> NoProbe(contains_key(penv, l))
          [] when.condition = "EnvNotSet" -> NoProbe(~contains_key(penv, l))
          [] when.condition = "OptionSet" -> NoProbe(contains_key(c.vars, when.left))
          [] when.condition = "OptionNotSet" -> NoProbe(~contains_key(c.vars, when.left))

(* The outcomes the environment can give to one condition *)
ProbeOutcomes(when) == IF when.condition = "Command" THEN ChildOutcomes ELSE {"exit0"}
FsAnswers(when) == IF when.condition = "Exists" THEN BOOLEAN ELSE {FALSE}

----------------------------------------------------------------------------
(* The inputs: the task handed to execute, the context and the environment *)

N_e == <<"e">>
N_k == <<"k">>
N_j == <<"j">>

Bag1(k, v) == insert(EmptyMap, k, v)
Bag2(k1, v1, k2, v2) == insert(Bag1(k1, v1), k2, v2)
Bag3(k1, v1, k2, v2, k3, v3) == insert(Bag2(k1, v1, k2, v2), k3, v3)

(* run: "a${e}" *)
ItemSimple == Run(<<>>, <<Simple(<<"a">> \o Placeholder(N_e))>>, <<>>, EmptyMap)

(* when: equal ${e} p, command t; command b; task child; set-environment k: v${e} *)
ItemConditional ==
    Run(<<Equal(Placeholder(N_e), <<"p">>), WhenCommand(<<"t">>)>>,
        <<Simple(<<"b">>)>>,
        <<SubTask("child", EmptyMap)>>,
        Bag1(N_k, Some(<<"v">> \o Placeholder(N_e))))

(* set-environment k: ${j}, j: 1, e: null *)
ItemEnvironment ==
    Run(<<>>, <<>>, <<>>,
        Bag3(N_k, Some(Placeholder(N_j)), N_j, Some(<<"1">>), N_e, None))

(* when: option-set k, env-set k, exists f; commands c, d in directory ${k};
   tasks child, leaf *)
ItemOption ==
    Run(<<OptionSet(N_k), EnvSet(N_k), Exists(<<"f">>)>>,
        <<Simple(<<"c">>), Complex(<<"d">>, TRUE, Some(Placeholder(N_k)))>>,
        <<SubTask("child", Bag1(N_e, <<"d">>)), SubTask("leaf", EmptyMap)>>,
        EmptyMap)

(* when: always, not-equal ${j} 1, env-not-set ${k}, option-not-set j;
   commands c, d; set-environment j: null *)
ItemCleanup ==
    Run(<<Always, NotEqual(Placeholder(N_j), <<"1">>), EnvNotSet(Placeholder(N_k)),
          OptionNotSet(N_j)>>,
        <<Simple(<<"c">>), Simple(<<"d">>)>>,
        <<>>,
        Bag1(N_j, None))

RunLibrary == {ItemSimple, ItemConditional, ItemEnvironment, ItemOption}
FinallyLibrary == {ItemCleanup, ItemConditional}

SeqsUpTo(S, n) == UNION {[1..m -> S] : m \in 0..n}

(* The task registry of the configuration: the tasks a subtask reference names *)
Registry ==
    [n \in {"child", "leaf"} |->
        IF n = "child"
        THEN Task("child", EmptyMap, <<Run(<<>>, <<Simple(<<"x">>)>>, <<>>, EmptyMap)>>, <<>>)
        ELSE Task("leaf", EmptyMap, <<>>, <<>>)]

(* The variables of the task, and the context and the environment execute is
   called with *)
Scenarios ==
    { [task_vars |-> EmptyMap, ctx_vars |-> EmptyMap, env |-> EmptyMap, stack |-> <<>>],
      [task_vars |-> Bag1(N_e, <<"p">>), ctx_vars |-> Bag1(N_k, <<"0">>),
       env |-> EmptyMap, stack |-> <<"outer">>],
      [task_vars |-> Bag1(N_e, <<"d">>), ctx_vars |-> Bag1(N_e, <<"p">>),
       env |-> Bag2(N_e, <<"p">>, N_j, <<"2">>), stack |-> <<>>],
      [task_vars |-> EmptyMap, ctx_vars |-> Bag1(N_k, <<"0">>),
       env |-> Bag2(N_e, <<"p">>, N_k, Placeholder(N_j)), stack |-> <<"outer">>] }

(* Call stacks that already hold the name of the task *)
RecursiveStacks == {<<"main">>, <<"main", "outer">>}

Runs == SeqsUpTo(RunLibrary, MaxRunItems)
Finallys == SeqsUpTo(FinallyLibrary, MaxFinallyItems)

----------------------------------------------------------------------------
(* Task::execute and its helpers, task.rs:120-226 *)

Items(p) == IF p = "run" THEN task.run ELSE task.finally

(* One entry of the history *)
Event(kind, ok, val, spawn, arg) ==
    [kind |-> kind, path |-> path, item |-> item, idx |-> idx,
     ok |-> ok, val |-> val, spawn |-> spawn, arg |-> arg]

(* The next step of execute_run_item at or after stage `stage`, index j of
   run-item i: commands, then subtasks, then set-environment, then the next
   run-item of the loop; "end" when the loop over the run-items is over *)
RECURSIVE Seek(_, _, _, _)
Seek(items, i, stage, j) ==
    IF i > Len(items) THEN [pc |-> "end", item |-> i, idx |-> 0]
    ELSE CASE stage = "when" ->
                IF j <= Len(items[i].when)
                THEN [pc |-> "when", item |-> i, idx |-> j]
                ELSE Seek(items, i, "cmd", 1)
           [] stage = "cmd" ->
                IF j <= Len(items[i].commands)
                THEN [pc |-> "cmd", item |-> i, idx |-> j]
                ELSE Seek(items, i, "subtask", 1)
           [] stage = "subtask" ->
                IF j <= Len(items[i].subtasks)
                THEN [pc |-> "subtask", item |-> i, idx |-> j]
                ELSE Seek(items, i, "setenv", 1)
           [] stage = "setenv" ->
                IF j = 1 /\ DOMAIN items[i].set_environment # {}
                THEN [pc |-> "setenv", item |-> i, idx |-> 1]
                ELSE Seek(items, i + 1, "when", 1)

(* The loop goes on at position pos; when it is over the path returns Ok(()) *)
Continue(pos) ==
    /\ item' = pos.item
    /\ idx' = pos.idx
    /\ IF pos.pc # "end"
       THEN pc' = pos.pc /\ UNCHANGED <<result, fres>>
       ELSE IF path = "run"
       THEN pc' = "after_run" /\ result' = Ok /\ UNCHANGED fres
       ELSE pc' = "after_finally" /\ fres' = Ok /\ UNCHANGED result

(* Mutant: the error is swallowed and the loop goes on with the next run-item *)
Fail_swallowed(e) == Continue(Seek(Items(path), item + 1, "when", 1))

(* The `?` operator: the error leaves execute_run_items or execute_finally_items *)
Fail(e) ==
    /\ UNCHANGED <<item, idx>>
    /\ IF path = "run"
       THEN pc' = "after_run" /\ result' = e /\ UNCHANGED fres
       ELSE pc' = "after_finally" /\ fres' = e /\ UNCHANGED result

(* Mutant: a key the context already has keeps its value *)
merge_vars_keep_existing(c, bag) ==
    [c EXCEPT !.vars = [x \in (DOMAIN c.vars) \cup (DOMAIN bag) |->
                            IF x \in DOMAIN c.vars THEN c.vars[x] ELSE bag[x]]]

(* task.rs:133-135 *)
merge_vars(c, bag) ==
    [c EXCEPT !.vars = [x \in (DOMAIN c.vars) \cup (DOMAIN bag) |->
                            IF x \in DOMAIN bag THEN bag[x] ELSE c.vars[x]]]

(* task.rs:121-124 *)
ExecuteRecursionGuard ==
    /\ pc = "entry"
    /\ is_task_in_stack(ctx.task_stack, task.name)
    /\ ret' = Err(CommandFailed(SomeCode(1)))
    /\ pc' = "returned"
    /\ UNCHANGED <<task, ctx, env, path, item, idx, result, fres, log, applied, entry>>
    /\ UNCHANGED <<config, cli, call, text, children>>

(* task.rs:126-138 *)
ExecuteEnter ==
    /\ pc = "entry"
    /\ ~is_task_in_stack(ctx.task_stack, task.name)
    /\ ctx' = merge_vars([ctx EXCEPT !.task_stack = push_task(ctx.task_stack, task.name)],
                         task.vars)
    /\ Continue(Seek(task.run, 1, "when", 1))
    /\ UNCHANGED <<task, env, path, ret, log, applied, entry>>
    /\ UNCHANGED <<config, cli, call, text, children>>

(* Mutant: the run-item is executed although a condition is false *)
when_next_never_skips(items, i, j, val) ==
    IF val THEN Seek(items, i, "when", j + 1) ELSE Seek(items, i, "cmd", 1)

(* Mutant: a false condition does not end the evaluation of the list *)
when_next_no_short_circuit(items, i, j, val) == Seek(items, i, "when", j + 1)

(* where the evaluation goes after one condition of the list: when.rs:11-16 and
   task.rs:183-188 *)
when_next(items, i, j, val) ==
    IF val THEN Seek(items, i, "when", j + 1) ELSE Seek(items, i + 1, "when", 1)

(* What evaluate_when_list does with the answer of one condition: when.rs:11-16
   and task.rs:183-188 *)
WhenReturns(oc, fs_exists) ==
    LET r == evaluate_when(Items(path)[item].when[idx], ctx, env, oc, fs_exists)
    IN  /\ log' = Append(log, Event("when", r.res.ok, r.val, r.spawn, r.arg))
        /\ IF r.res.ok
           THEN Continue(when_next(Items(path), item, idx, r.val))
           ELSE Fail(r.res)

(* One condition of evaluate_when_list, when.rs:10-17 *)
EvaluateWhen ==
    /\ pc = "when"
    /\ \E oc \in ProbeOutcomes(Items(path)[item].when[idx]),
          fs_exists \in FsAnswers(Items(path)[item].when[idx]) :
         WhenReturns(oc, fs_exists)
    /\ UNCHANGED <<task, ctx, env, path, ret, applied, entry>>
    /\ UNCHANGED <<config, cli, call, text, children>>

(* What execute_run_item does with the result of one command: task.rs:191-193 *)
CommandReturns(oc) ==
    LET r == execute_command(Items(path)[item].commands[idx], ctx, env, oc)
    IN  /\ log' = Append(log, Event("cmd", r.res.ok, r.res.ok, r.spawn, r.arg))
        /\ IF r.res.ok
           THEN Continue(Seek(Items(path), item, "cmd", idx + 1))
           ELSE Fail(r.res)

(* task.rs:191-193 *)
ExecuteCommand ==
    /\ pc = "cmd"
    /\ \E oc \in ChildOutcomes : CommandReturns(oc)
    /\ UNCHANGED <<task, ctx, env, path, ret, applied, entry>>
    /\ UNCHANGED <<config, cli, call, text, children>>

(* task.rs:221-226: the subtask is skipped *)
execute_subtask(subtask, c) == [res |-> Ok, ctx |-> c, spawned |-> <<>>]

(* task.rs:196-198 *)
ExecuteSubtask ==
    /\ pc = "subtask"
    /\ LET r == execute_subtask(Items(path)[item].subtasks[idx], ctx)
       IN  /\ ctx' = r.ctx
           /\ log' = Append(log, Event("subtask", r.res.ok, r.res.ok, r.spawned # <<>>,
                                       r.spawned))
           /\ IF r.res.ok
              THEN Continue(Seek(Items(path), item, "subtask", idx + 1))
              ELSE Fail(r.res)
    /\ UNCHANGED <<task, env, path, ret, applied, entry>>
    /\ UNCHANGED <<config, cli, call, text, children>>

(* Mutant: a null entry is removed from the bag but not from the environment *)
apply_entry_keeps_env(st, key, value) ==
    IF value.some
    THEN LET interpolated == interpolate_or_raw(value.val, st.vars, st.env)
         IN  [vars |-> insert(st.vars, key, interpolated),
              env |-> insert(st.env, key, interpolated)]
    ELSE [vars |-> remove(st.vars, key), env |-> st.env]

(* task.rs:203-214: one entry of the set-environment map; st is the pair of
   the context bag and the process environment *)
apply_entry(st, key, value) ==
    IF value.some
    THEN LET interpolated == interpolate_or_raw(value.val, st.vars, st.env)
         IN  [vars |-> insert(st.vars, key, interpolated),
              env |-> insert(st.env, key, interpolated)]
    ELSE [vars |-> remove(st.vars, key), env |-> remove(st.env, key)]

(* task.rs:202: the entries order[i..] of the map, in the order of iteration *)
RECURSIVE apply_set_environment(_, _, _, _)
apply_set_environment(m, order, i, st) ==
    IF i > Len(order) THEN st
    ELSE apply_set_environment(m, order, i + 1, apply_entry(st, order[i], m[order[i]]))

(* The orders in which a HashMap may iterate over its keys *)
IterationOrders(m) ==
    {o \in [1..Cardinality(DOMAIN m) -> DOMAIN m] :
        \A a, b \in 1..Cardinality(DOMAIN m) : a # b => o[a] # o[b]}

PositionOf(order, k) == CHOOSE a \in 1..Len(order) : order[a] = k

(* task.rs:200-216 *)
ApplySetEnvironment ==
    /\ pc = "setenv"
    /\ LET m == Items(path)[item].set_environment
           st == [vars |-> ctx.vars, env |-> env]
       IN  \E order \in IterationOrders(m) :
             LET after == apply_set_environment(m, order, 1, st)
             IN  /\ ctx' = [ctx EXCEPT !.vars = after.vars]
                 /\ env' = after.env
                 /\ applied' = [k \in DOMAIN m |->
                        apply_set_environment(
                            m, SubSeq(order, 1, PositionOf(order, k) - 1), 1, st)]
    /\ log' = Append(log, Event("setenv", TRUE, TRUE, FALSE, <<>>))
    /\ Continue(Seek(Items(path), item + 1, "when", 1))
    /\ UNCHANGED <<task, path, ret, entry>>
    /\ UNCHANGED <<config, cli, call, text, children>>

(* Mutant: the finally path runs only after a main path that succeeded *)
runs_finally_on_success(t, main) == t.finally # <<>> /\ main.ok

(* task.rs:141: whether the finally path runs *)
runs_finally(t, main) == t.finally # <<>>

(* task.rs:141-143 *)
BeginFinally ==
    /\ pc = "after_run"
    /\ runs_finally(task, result)
    /\ path' = "finally"
    /\ log' = Append(log, [kind |-> "finally", path |-> "finally", item |-> 0, idx |-> 0,
                           ok |-> TRUE, val |-> TRUE, spawn |-> FALSE, arg |-> <<>>])
    /\ LET pos == Seek(task.finally, 1, "when", 1)
       IN  /\ item' = pos.item
           /\ idx' = pos.idx
           /\ IF pos.pc # "end"
              THEN pc' = pos.pc /\ UNCHANGED fres
              ELSE pc' = "after_finally" /\ fres' = Ok
    /\ UNCHANGED <<task, ctx, env, result, ret, applied, entry>>
    /\ UNCHANGED <<config, cli, call, text, children>>

(* Mutant: the outcome of the finally path is dropped *)
combine_main_only(main, fin) == main

(* Mutant: an error of the finally path always wins *)
combine_finally_wins(main, fin) == IF ~fin.ok THEN fin ELSE main

(* task.rs:143-160: the value execute returns, from the outcome of the main
   path and of the finally path *)
combine(main, fin) == IF main.ok /\ ~fin.ok THEN fin ELSE main

(* task.rs:153-160, the finally path being empty *)
ReturnWithoutFinally ==
    /\ pc = "after_run"
    /\ ~runs_finally(task, result)
    /\ ctx' = [ctx EXCEPT !.task_stack = pop_task(ctx.task_stack)]
    /\ ret' = result
    /\ pc' = "returned"
    /\ UNCHANGED <<task, env, path, item, idx, result, fres, log, applied, entry>>
    /\ UNCHANGED <<config, cli, call, text, children>>

(* task.rs:143-160 *)
ReturnAfterFinally ==
    /\ pc = "after_finally"
    /\ ctx' = [ctx EXCEPT !.task_stack = pop_task(ctx.task_stack)]
    /\ ret' = combine(result, fres)
    /\ pc' = "returned"
    /\ UNCHANGED <<task, env, path, item, idx, result, fres, log, applied, entry>>
    /\ UNCHANGED <<config, cli, call, text, children>>

----------------------------------------------------------------------------

Init ==
    /\ \E sc \in Scenarios, r \in Runs, f \in Finallys :
       \E st \in {sc.stack} \cup RecursiveStacks :
         /\ task = Task("main", sc.task_vars, r, f)
         /\ ctx = [vars |-> sc.ctx_vars, task_stack |-> st, interpreter |-> Interpreter]
         /\ env = sc.env
    /\ pc = "entry"
    /\ path = "run"
    /\ item = 0
    /\ idx = 0
    /\ result = Pending
    /\ fres = Pending
    /\ ret = Pending
    /\ log = <<>>
    /\ applied = EmptyMap
    /\ entry = [vars |-> ctx.vars, task_stack |-> ctx.task_stack, env |-> env]
    /\ config = EmptyMap
    /\ cli = Idle
    /\ call = NoCall
    /\ children = <<>>
    /\ text = <<>>

Next ==
    \/ ExecuteRecursionGuard
    \/ ExecuteEnter
    \/ EvaluateWhen
    \/ ExecuteCommand
    \/ ExecuteSubtask
    \/ ApplySetEnvironment
    \/ BeginFinally
    \/ ReturnWithoutFinally
    \/ ReturnAfterFinally

Spec == Init /\ [][Next]_vars

----------------------------------------------------------------------------
(* Vocabulary of the properties, over the history *)

Steps == 1..Len(log)

(* The name of the task was on the call stack when execute was entered *)
OnStackAtEntry == \E a \in 1..Len(entry.task_stack) : entry.task_stack[a] = task.name

Returned == pc = "returned"
MainFailed == result # Pending /\ ~result.ok
FinallyRan == fres # Pending
FinallyFailed == fres # Pending /\ ~fres.ok

(* The step of kind `kind` at index j of run-item i of path p was taken *)
Logged(kind, p, i, j) ==
    \E n \in Steps :
        log[n].kind = kind /\ log[n].path = p /\ log[n].item = i /\ log[n].idx = j

LoggedOk(kind, p, i, j) ==
    \E n \in Steps :
        /\ log[n].kind = kind /\ log[n].path = p /\ log[n].item = i /\ log[n].idx = j
        /\ log[n].ok /\ log[n].val

(* A condition of run-item i of path p evaluated to false *)
Skipped(p, i) ==
    \E n \in Steps :
        /\ log[n].kind = "when" /\ log[n].path = p /\ log[n].item = i
        /\ log[n].ok /\ ~log[n].val

(* Every condition of run-item i of path p was evaluated and held *)
ConditionsHeld(p, i) ==
    \A j \in 1..Len(Items(p)[i].when) : LoggedOk("when", p, i, j)

----------------------------------------------------------------------------
(* C1: when execute passes the entry guard and the finally path is not empty,
   the finally path is started, and it is started after the main path has
   ended: every step of the main path comes before the start of the finally
   path and every step of the finally path after it, whether the main path
   succeeded, failed on a command or failed on a condition. *)
C1_FinallyStartsAfterMain ==
    (~OnStackAtEntry /\ task.finally # <<>>) =>
        /\ Returned => \E n \in Steps : log[n].kind = "finally"
        /\ \A n \in Steps :
             log[n].kind = "finally" =>
                /\ result # Pending
                /\ \A m \in Steps : log[m].path = "run" => m < n
                /\ \A m \in Steps : (m # n /\ log[m].path = "finally") => m > n

(* The main path failed on a condition that could not be evaluated, and a
   command of the finally path ran afterwards *)
C1_Witness ==
    /\ Returned
    /\ MainFailed
    /\ \E n, m \in Steps :
         /\ log[n].path = "run" /\ log[n].kind = "when" /\ ~log[n].ok
         /\ log[m].path = "finally" /\ log[m].kind = "cmd" /\ n < m

(* C2: the value execute returns: the error of the finally path when the main
   path succeeded and the finally path failed, the error of the main path when
   the main path failed (whatever the finally path did), Ok when both
   succeeded. *)
C2_ErrorCombination ==
    (Returned /\ ~OnStackAtEntry) =>
        /\ (result.ok /\ FinallyFailed) => ret = fres
        /\ MainFailed => ret = result
        /\ (result.ok /\ ~FinallyFailed) => ret = Ok

(* Both paths failed, with different errors, and the error of the main path
   was returned *)
C2_Witness ==
    /\ Returned
    /\ MainFailed
    /\ FinallyFailed
    /\ result # fres
    /\ ret = result

(* The last step of the finally path that was taken *)
LastFinallyStep == log[Len(log)]

(* Command j of run-item i of the finally path is not after the step at which
   the finally path failed *)
NotAfterFailure(i, j) ==
    \/ i < LastFinallyStep.item
    \/ i = LastFinallyStep.item /\ LastFinallyStep.kind = "cmd" /\ j <= LastFinallyStep.idx

(* C3, as stated: when the main path failed and the finally path is not
   empty, every command of every finally run-item whose conditions hold has
   been executed when execute returns. *)
C3_EveryFinallyCommandRuns ==
    (Returned /\ ~OnStackAtEntry /\ MainFailed /\ task.finally # <<>>) =>
        \A i \in 1..Len(task.finally) :
            ConditionsHeld("finally", i) =>
                \A j \in 1..Len(task.finally[i].commands) : Logged("cmd", "finally", i, j)

(* C3, amended: when the main path failed and the finally path is not empty,
   the finally path has run when execute returns the error of the main path,
   and of every finally run-item whose conditions hold every command has been
   executed, up to and including the first step of the finally path that
   failed, if one did. *)
C3_FinallyCommandsRunUntilFailure ==
    (Returned /\ ~OnStackAtEntry /\ MainFailed /\ task.finally # <<>>) =>
        /\ FinallyRan
        /\ ret = result
        /\ \A i \in 1..Len(task.finally) :
             ConditionsHeld("finally", i) =>
                \A j \in 1..Len(task.finally[i].commands) :
                    (fres.ok \/ NotAfterFailure(i, j)) => Logged("cmd", "finally", i, j)

(* The main path failed and the two commands of a finally run-item ran *)
C3_Witness ==
    /\ Returned
    /\ MainFailed
    /\ task.finally # <<>>
    /\ Len(task.finally[1].commands) = 2
    /\ Logged("cmd", "finally", 1, 1)
    /\ Logged("cmd", "finally", 1, 2)

(* C4: the call stack execute returns with is the call stack it was entered
   with, whatever the outcome, and while the run-items of the task execute
   the name of the task is the top of the stack. *)
C4_CallStackBalance ==
    /\ Returned => ctx.task_stack = entry.task_stack
    /\ pc \in {"when", "cmd", "subtask", "setenv", "after_run", "after_finally"} =>
          /\ ctx.task_stack # <<>>
          /\ ctx.task_stack[Len(ctx.task_stack)] = task.name
          /\ ctx.task_stack = Append(entry.task_stack, task.name)

(* execute returned the error of the finally path to a caller that has a
   task on the stack *)
C4_Witness ==
    /\ Returned
    /\ result.ok
    /\ FinallyFailed
    /\ ret = fres
    /\ entry.task_stack = <<"outer">>
    /\ ctx.task_stack = <<"outer">>

(* C5: execute on a task whose name is already on the call stack returns an
   error at once: no command and no probe is spawned, no step of the main or
   of the finally path is taken, the variables of the task are not merged,
   and the call stack, the bag and the environment are left as they were. *)
C5_EntryGuard ==
    OnStackAtEntry =>
        /\ pc \in {"entry", "returned"}
        /\ log = <<>>
        /\ ctx.vars = entry.vars
        /\ ctx.task_stack = entry.task_stack
        /\ env = entry.env
        /\ result = Pending
        /\ fres = Pending
        /\ Returned => ret = Err(CommandFailed(SomeCode(1)))

(* The guard fired for a task with variables, run-items and a finally path,
   whose name is on the stack below another one *)
C5_Witness ==
    /\ Returned
    /\ entry.task_stack = <<"main", "outer">>
    /\ task.vars # EmptyMap
    /\ task.run # <<>>
    /\ task.finally # <<>>
    /\ ~ret.ok

(* C6: a run-item whose condition list evaluates to false is skipped
   entirely: no command of it is spawned, no subtask of it is dispatched, its
   set-environment entries are not applied, the step that skips it changes
   neither the bag nor the environment and raises no error, and the execution
   goes on with the next run-item. *)
C6_NoStepOfSkippedItem ==
    \A n \in Steps :
        (log[n].kind = "when" /\ log[n].ok /\ ~log[n].val) =>
            \A m \in Steps :
                (log[m].path = log[n].path /\ log[m].item = log[n].item) =>
                    (log[m].kind = "when" /\ m <= n)

C6_SkipStep ==
    (/\ pc = "when"
     /\ Len(log') = Len(log) + 1
     /\ log'[Len(log')].ok
     /\ ~log'[Len(log')].val) =>
        /\ ctx' = ctx
        /\ env' = env
        /\ applied' = applied
        /\ path' = path
        /\ item' = item + 1
        /\ IF item' <= Len(Items(path))
           THEN pc' \in {"when", "cmd", "subtask", "setenv"} /\ result' = result /\ fres' = fres
           ELSE IF path = "run"
           THEN pc' = "after_run" /\ result' = Ok
           ELSE pc' = "after_finally" /\ fres' = Ok

C6_SkippedItemHasNoEffect == []C6_NoStepOfSkippedItem /\ [][C6_SkipStep]_vars

(* The first run-item was skipped, its set-environment entry was not applied,
   and a command of the second run-item ran *)
C6_Witness ==
    /\ Returned
    /\ Len(task.run) = 2
    /\ task.run[1] = ItemConditional
    /\ Skipped("run", 1)
    /\ ~Logged("cmd", "run", 1, 1)
    /\ ctx.vars = [x \in (DOMAIN entry.vars) \cup (DOMAIN task.vars) |->
                      IF x \in DOMAIN task.vars THEN task.vars[x] ELSE entry.vars[x]]
    /\ LoggedOk("cmd", "run", 2, 1)
    /\ ret = Ok

(* C7: evaluate_when_list is a conjunction that stops at the first false
   condition: a condition is evaluated only right after the condition before
   it evaluated to true, the run-item is executed only if every condition of
   its list evaluated to true, and it is executed whenever they all did; so
   no condition after a false one is evaluated and no probe after it is
   spawned. *)
C7_ShortCircuitConjunction ==
    /\ \A n \in Steps :
         (log[n].kind = "when" /\ log[n].idx > 1) =>
            /\ n > 1
            /\ log[n - 1].kind = "when"
            /\ log[n - 1].path = log[n].path
            /\ log[n - 1].item = log[n].item
            /\ log[n - 1].idx = log[n].idx - 1
            /\ log[n - 1].ok /\ log[n - 1].val
    /\ \A n \in Steps :
         log[n].kind \in {"cmd", "subtask", "setenv"} =>
            ConditionsHeld(log[n].path, log[n].item)
    /\ \A p \in {"run", "finally"} :
         \A i \in 1..Len(Items(p)) :
            (/\ Items(p)[i].when # <<>>
             /\ ConditionsHeld(p, i)
             /\ Items(p)[i].commands # <<>>) =>
                \/ path = p /\ item = i /\ pc = "cmd" /\ idx = 1
                \/ Logged("cmd", p, i, 1)

(* The equality of the first run-item was false and the probe after it was
   never spawned *)
C7_Witness ==
    /\ Returned
    /\ task.run # <<>>
    /\ task.run[1] = ItemConditional
    /\ \E n \in Steps :
         /\ log[n].kind = "when" /\ log[n].path = "run" /\ log[n].item = 1
         /\ log[n].idx = 1 /\ log[n].ok /\ ~log[n].val
    /\ ~Logged("when", "run", 1, 2)
    /\ \A n \in Steps : log[n].path = "run" => ~log[n].spawn

StageRank(kind) ==
    CASE kind = "finally" -> 0
      [] kind = "when" -> 1
      [] kind = "cmd" -> 2
      [] kind = "subtask" -> 3
      [] kind = "setenv" -> 4

PathRank(p) == IF p = "run" THEN 1 ELSE 2

(* Step a comes before step b in the declared order *)
DeclaredBefore(a, b) ==
    \/ PathRank(a.path) < PathRank(b.path)
    \/ /\ a.path = b.path
       /\ \/ a.item < b.item
          \/ /\ a.item = b.item
             /\ \/ StageRank(a.kind) < StageRank(b.kind)
                \/ a.kind = b.kind /\ a.idx < b.idx

AllCommandsRan(p, i) ==
    \A j \in 1..Len(Items(p)[i].commands) : LoggedOk("cmd", p, i, j)

AllSubtasksRan(p, i) ==
    \A j \in 1..Len(Items(p)[i].subtasks) : LoggedOk("subtask", p, i, j)

Completed(p, i) ==
    /\ AllCommandsRan(p, i)
    /\ AllSubtasksRan(p, i)
    /\ (DOMAIN Items(p)[i].set_environment # {}) => Logged("setenv", p, i, 1)

(* C8: each step comes after the step before it in the declared order, so the
   steps are taken in the declared order: run-item by run-item, in a
   run-item the commands in order, then the subtask references in order, and
   the set-environment entries only after all of them succeeded; a run-item is
   reached only after every run-item before it was skipped or completed, and
   after the first failing step of the main path no further step of the main
   path is taken. *)
C8_DeclaredOrder ==
    /\ \A n \in Steps : n > 1 => DeclaredBefore(log[n - 1], log[n])
    /\ \A n \in Steps :
         LET p == log[n].path
             i == log[n].item
         IN  /\ log[n].kind = "cmd" =>
                  \A j \in 1..(log[n].idx - 1) : LoggedOk("cmd", p, i, j)
             /\ log[n].kind = "subtask" =>
                  /\ AllCommandsRan(p, i)
                  /\ \A j \in 1..(log[n].idx - 1) : LoggedOk("subtask", p, i, j)
             /\ log[n].kind = "setenv" => AllCommandsRan(p, i) /\ AllSubtasksRan(p, i)
             /\ log[n].kind # "finally" =>
                  \A h \in 1..(i - 1) : Skipped(p, h) \/ Completed(p, h)
    /\ \A n \in Steps :
         (log[n].path = "run" /\ ~log[n].ok) =>
            \A m \in Steps : m > n => log[m].path # "run"

(* The first run-item ran its command, its subtask and its set-environment
   entries, the first command of the second run-item failed, and nothing of
   the main path followed *)
C8_Witness ==
    /\ Returned
    /\ Len(task.run) = 2
    /\ LoggedOk("cmd", "run", 1, 1)
    /\ LoggedOk("subtask", "run", 1, 1)
    /\ Logged("setenv", "run", 1, 1)
    /\ \E n \in Steps :
         /\ log[n].path = "run" /\ log[n].item = 2 /\ log[n].kind = "cmd" /\ ~log[n].ok
         /\ log[n].idx = 1
    /\ ~Logged("cmd", "run", 2, 2)
    /\ Len(task.run[2].commands) = 2

(* C9: a subtask reference of an executed run-item is looked up in the task
   registry and the task is executed: when the referenced task starts with an
   unconditional command, dispatching the reference spawns that command. *)
C9_SubtaskIsExecuted ==
    \A n \in Steps :
        log[n].kind = "subtask" =>
            LET ref == Items(log[n].path)[log[n].item].subtasks[log[n].idx]
            IN  (/\ ref.name \in DOMAIN Registry
                 /\ Registry[ref.name].run # <<>>
                 /\ Registry[ref.name].run[1].when = <<>>
                 /\ Registry[ref.name].run[1].commands # <<>>) => log[n].spawn

(* C10: after the set-environment entries of a run-item are applied, every
   key with a value is in the environment and in the bag with the value
   interpolated when the entry was applied, and every key with a null entry
   is absent from both. *)
C10_SetEnvironmentApplied ==
    (log # <<>> /\ log[Len(log)].kind = "setenv") =>
        LET m == Items(log[Len(log)].path)[log[Len(log)].item].set_environment
        IN  \A k \in DOMAIN m :
                IF m[k].some
                THEN /\ k \in DOMAIN env
                     /\ k \in DOMAIN ctx.vars
                     /\ env[k] = ctx.vars[k]
                     /\ env[k] = interpolate_or_raw(m[k].val, applied[k].vars, applied[k].env)
                ELSE /\ k \notin DOMAIN env
                     /\ k \notin DOMAIN ctx.vars

(* The three entries of a run-item were applied: the key with a null entry,
   which the environment and the bag held on entry, is gone, and the key whose
   value names another key of the map holds the value of that key *)
C10_Witness ==
    /\ log # <<>>
    /\ log[Len(log)].kind = "setenv"
    /\ Items(log[Len(log)].path)[log[Len(log)].item] = ItemEnvironment
    /\ N_e \in DOMAIN entry.env
    /\ N_e \in DOMAIN task.vars
    /\ N_e \notin DOMAIN env
    /\ N_e \notin DOMAIN ctx.vars
    /\ env[N_k] = <<"1">>
    /\ ctx.vars[N_j] = <<"1">>

----------------------------------------------------------------------------
(* config/types.rs: the configuration as it was deserialised.  The names of
   tasks, arguments and options are strings, sequences of characters. *)

(* Run::SimpleCommand and Run::Complex(RunItem), types.rs:79-117 *)
SimpleCommand(cmd) == [kind |-> "SimpleCommand", cmd |-> cmd]
RunItem(when, command, subtasks, set_environment) ==
    [kind |-> "Complex", when |-> when, command |-> command, task |-> subtasks,
     set_environment |-> set_environment]

(* SubTask::Simple and SubTask::Complex(SubTaskDetail), types.rs:152-169 *)
SubTaskSimple(name) == [kind |-> "Simple", name |-> name]
SubTaskDetail(name, options) == [kind |-> "Complex", name |-> name, options |-> options]

(* When, types.rs:173-205: at most one of the fields is given *)
WhenFields ==
    [equal |-> None, not_equal |-> None, command |-> None, exists |-> None,
     env_set |-> None, env_not_set |-> None, option_set |-> None, option_not_set |-> None]

(* TaskOption, types.rs:219-251, and Arg, types.rs:259-275 *)
ConfigOption(option_type) ==
    [option_type |-> option_type, default |-> None, environment |-> None,
     rewrite |-> None]
ConfigArg == [required |-> FALSE, default |-> None]

(* Task, types.rs:30-74 *)
ConfigTask(source, target, args, options, run, finally) ==
    [source |-> source, target |-> target, args |-> args, options |-> options,
     run |-> run, finally |-> finally]

----------------------------------------------------------------------------
(* error.rs: ConfigError *)

SourceWithoutTarget == [kind |-> "SourceWithoutTarget", code |-> NoCode, name |-> ""]
TargetWithoutSource == [kind |-> "TargetWithoutSource", code |-> NoCode, name |-> ""]
DuplicateNames(name) == [kind |-> "DuplicateNames", code |-> NoCode, name |-> name]
TaskNotFound(name) == [kind |-> "TaskNotFound", code |-> NoCode, name |-> name]
CircularDependency(p) == [kind |-> "CircularDependency", code |-> NoCode, name |-> p]
Invalid(message) == [kind |-> "Invalid", code |-> NoCode, name |-> message]

----------------------------------------------------------------------------
(* config/schema.rs *)

(* schema.rs:48-56 *)
validate_option_type(option_type) ==
    IF option_type \in {"string", "bool", "boolean", "int", "integer", "float"}
    THEN Ok
    ELSE Err(Invalid(<<"Invalid option type: ", option_type,
                       ". Must be one of: string, bool, int, float">>))

(* The keys of a task's two maps, each in the order its HashMap iterates *)
KeyOrders(t) ==
    {[args |-> a, options |-> o] : a \in IterationOrders(t.args),
                                   o \in IterationOrders(t.options)}

(* schema.rs:23-45 *)
validate_task(name, t, keys) ==
    LET duplicates == {i \in 1..Len(keys.args) : contains_key(t.options, keys.args[i])}
        first_dup == CHOOSE i \in duplicates : \A j \in duplicates : i <= j
        invalid == {i \in 1..Len(keys.options) :
                       ~validate_option_type(t.options[keys.options[i]].option_type).ok}
        first_inv == CHOOSE i \in invalid : \A j \in invalid : i <= j
    IN  IF t.source # <<>> /\ t.target = <<>> THEN Err(SourceWithoutTarget)
        ELSE IF t.target # <<>> /\ t.source = <<>> THEN Err(TargetWithoutSource)
        ELSE IF duplicates # {} THEN Err(DuplicateNames(keys.args[first_dup]))
        ELSE IF invalid # {}
             THEN validate_option_type(t.options[keys.options[first_inv]].option_type)
        ELSE Ok

(* " -> " *)
Arrow == <<" ", "-", ">", " ">>

(* Vec<String>::join *)
RECURSIVE join(_, _)
join(list, sep) ==
    IF list = <<>> THEN <<>>
    ELSE IF Len(list) = 1 THEN list[1]
    ELSE list[1] \o sep \o join(Tail(list), sep)

(* schema.rs:96-106 and 115-125: the names of the subtasks of one run item *)
run_subtasks(run) ==
    IF run.kind = "SimpleCommand" THEN <<>>
    ELSE [k \in 1..Len(run.task) |-> run.task[k].name]

(* The names the loops of schema.rs:95-111 or 114-130 check, in order *)
RECURSIVE section_subtasks(_)
section_subtasks(items) ==
    IF items = <<>> THEN <<>>
    ELSE run_subtasks(Head(items)) \o section_subtasks(Tail(items))

(* Mutant: the finally blocks are not walked *)
task_subtasks_run_only(t) == section_subtasks(t.run)

(* schema.rs:95-130: the run items, then the finally blocks *)
task_subtasks(t) == section_subtasks(t.run) \o section_subtasks(t.finally)

(* Mutant: the name found on the stack is not pushed *)
cycle_path_open(stack, task_name) == join(stack, Arrow)

(* schema.rs:77-78 *)
cycle_path(stack, task_name) == join(Append(stack, task_name), Arrow)

RECURSIVE check_task_cycle(_, _, _, _)
RECURSIVE check_subtasks(_, _, _, _, _)

(* schema.rs:108-110 and 127-129: the calls for names[i..], until one fails *)
check_subtasks(registry, names, i, visited, stack) ==
    IF i > Len(names) THEN [res |-> Ok, visited |-> visited, stack |-> stack]
    ELSE LET r == check_task_cycle(registry, names[i], visited, stack)
         IN  IF ~r.res.ok THEN r
             ELSE check_subtasks(registry, names, i + 1, r.visited, r.stack)

(* Mutant: a name that is not in the registry is taken for a task without
   subtasks *)
check_task_cycle_missing_ok(registry, task_name, visited, stack) ==
    IF \E a \in 1..Len(stack) : stack[a] = task_name
    THEN [res |-> Err(CircularDependency(cycle_path(stack, task_name))),
          visited |-> visited, stack |-> Append(stack, task_name)]
    ELSE IF task_name \in visited \/ ~contains_key(registry, task_name)
    THEN [res |-> Ok, visited |-> visited, stack |-> stack]
    ELSE LET r == check_subtasks(registry, task_subtasks(registry[task_name]), 1,
                                 visited, Append(stack, task_name))
         IN  IF ~r.res.ok THEN r
             ELSE [res |-> Ok, visited |-> r.visited \cup {task_name},
                   stack |-> SubSeq(r.stack, 1, Len(r.stack) - 1)]

(* schema.rs:69-137 *)
check_task_cycle(registry, task_name, visited, stack) ==
    IF \E a \in 1..Len(stack) : stack[a] = task_name
    THEN [res |-> Err(CircularDependency(cycle_path(stack, task_name))),
          visited |-> visited, stack |-> Append(stack, task_name)]
    ELSE IF task_name \in visited
    THEN [res |-> Ok, visited |-> visited, stack |-> stack]
    ELSE IF ~contains_key(registry, task_name)
    THEN [res |-> Err(TaskNotFound(task_name)), visited |-> visited, stack |-> stack]
    ELSE LET r == check_subtasks(registry, task_subtasks(registry[task_name]), 1,
                                 visited, Append(stack, task_name))
         IN  IF ~r.res.ok THEN r
             ELSE [res |-> Ok, visited |-> r.visited \cup {task_name},
                   stack |-> SubSeq(r.stack, 1, Len(r.stack) - 1)]

(* schema.rs:59-66: the tasks in the order the HashMap iterates, each with a
   new visited set and a new stack *)
detect_circular_task_dependencies(registry, order) ==
    LET failing == {i \in 1..Len(order) :
                       ~check_task_cycle(registry, order[i], {}, <<>>).res.ok}
        first == CHOOSE i \in failing : \A j \in failing : i <= j
    IN  IF failing = {} THEN Ok
        ELSE check_task_cycle(registry, order[first], {}, <<>>).res

(* schema.rs:10-20: both loops iterate over the same unmodified HashMap, so
   in the same order *)
validate_config(registry, order, keys) ==
    LET failing == {i \in 1..Len(order) :
                       ~validate_task(order[i], registry[order[i]], keys[order[i]]).ok}
        first == CHOOSE i \in failing : \A j \in failing : i <= j
    IN  IF failing # {}
        THEN validate_task(order[first], registry[order[first]], keys[order[first]])
        ELSE detect_circular_task_dependencies(registry, order)

----------------------------------------------------------------------------
(* The registries handed to validate_config *)

MaxTasks == 2

TaskNameList == <<<<"a">>, <<"b">>, <<"c">>, <<"d">>>>
TaskNames == {TaskNameList[i] : i \in 1..MaxTasks}

(* A name no registry has *)
Ghost == <<"g">>
Targets == TaskNames \cup {Ghost}

(* when: equal 0 1, a condition that never holds *)
NeverTrue == [WhenFields EXCEPT !.equal = Some([left |-> <<"0">>, right |-> <<"1">>])]

(* run: nothing, a command, or a subtask under a condition that never holds *)
GraphRuns ==
    {<<>>, <<SimpleCommand(<<"x">>)>>}
    \cup {<<RunItem(<<NeverTrue>>, <<>>, <<SubTaskSimple(t)>>, EmptyMap)>> : t \in Targets}

(* finally: nothing, or a subtask with options *)
GraphFinallys ==
    {<<>>} \cup {<<RunItem(<<>>, <<>>, <<SubTaskDetail(t, EmptyMap)>>, EmptyMap)>> :
                    t \in Targets}

GraphTasks == {ConfigTask(<<>>, <<>>, EmptyMap, EmptyMap, r, f) :
                  r \in GraphRuns, f \in GraphFinallys}

(* Every task is well-formed, or one of them has a source and no target *)
ValidatorRegistries ==
    LET sound == [TaskNames -> GraphTasks]
    IN  sound \cup {[reg EXCEPT ![n].source = <<"s">>] : reg \in sound, n \in TaskNames}

(* Outside Task::execute: the variables of the orchestrator at rest *)
NotExecuting ==
    /\ task = Task("none", EmptyMap, <<>>, <<>>)
    /\ ctx = [vars |-> EmptyMap, task_stack |-> <<>>, interpreter |-> Interpreter]
    /\ env = EmptyMap
    /\ pc = "idle"
    /\ path = "run"
    /\ item = 0
    /\ idx = 0
    /\ result = Pending
    /\ fres = Pending
    /\ ret = Pending
    /\ log = <<>>
    /\ applied = EmptyMap
    /\ entry = [vars |-> EmptyMap, task_stack |-> <<>>, env |-> EmptyMap]

(* For every task, an order of iteration of its args and of its options *)
RegistryKeyOrders(registry) ==
    {k \in [DOMAIN registry -> UNION {KeyOrders(registry[n]) : n \in DOMAIN registry}] :
        \A n \in DOMAIN registry : k[n] \in KeyOrders(registry[n])}

(* schema.rs:10-20, called on the registry *)
ValidateConfig ==
    /\ \E order \in IterationOrders(config), keys \in RegistryKeyOrders(config) :
         call' = [fn |-> "validate_config", arg |-> <<>>,
                  res |-> validate_config(config, order, keys)]
    /\ UNCHANGED <<task, ctx, env, pc, path, item, idx, result, fres, ret, log, applied,
                   entry, config, cli, text, children>>

InitValidate ==
    /\ NotExecuting
    /\ config \in ValidatorRegistries
    /\ cli = Idle
    /\ call = NoCall
    /\ children = <<>>
    /\ text = <<>>

NextValidate == ValidateConfig

SpecValidate == InitValidate /\ [][NextValidate]_vars

----------------------------------------------------------------------------
(* Vocabulary of the properties of the validator, over the registry itself *)

(* The names the run items of one section refer to *)
SectionReferences(items) ==
    UNION {{items[i].task[k].name : k \in 1..Len(items[i].task)} :
              i \in {x \in 1..Len(items) : items[x].kind = "Complex"}}

(* Task a declares a reference to the name b, in run or in finally *)
Refers(a, b) ==
    /\ a \in DOMAIN config
    /\ b \in SectionReferences(config[a].run) \cup SectionReferences(config[a].finally)

ReferencedNames ==
    UNION {SectionReferences(config[a].run) \cup SectionReferences(config[a].finally) :
              a \in DOMAIN config}

MissingNames == ReferencedNames \ DOMAIN config

(* The tasks reachable from the tasks of S by one reference or more *)
RECURSIVE ReachableFrom(_)
ReachableFrom(S) ==
    LET more == S \cup {b \in DOMAIN config : \E a \in S : Refers(a, b)}
    IN  IF more = S THEN S ELSE ReachableFrom(more)

HasCycle ==
    \E n \in DOMAIN config : n \in ReachableFrom({b \in DOMAIN config : Refers(n, b)})

PassesTaskValidation(t) ==
    /\ (t.source = <<>>) <=> (t.target = <<>>)
    /\ DOMAIN t.args \cap DOMAIN t.options = {}
    /\ \A o \in DOMAIN t.options :
         t.options[o].option_type \in {"string", "bool", "boolean", "int", "integer", "float"}

AllTasksPass == \A n \in DOMAIN config : PassesTaskValidation(config[n])

Validated == call.fn = "validate_config"
FailedWith(kind) == ~call.res.ok /\ call.res.err.kind = kind

(* C11: when every referenced name exists and every task passes the
   validation of a single task, validate_config fails with CircularDependency
   exactly when the references of the run and finally sections form a cycle,
   a reference under a condition that never holds counting like any other. *)
C11_CycleIffCircularDependency ==
    (Validated /\ MissingNames = {} /\ AllTasksPass)
        => (FailedWith("CircularDependency") <=> HasCycle)

(* A cycle through a finally block and a run item whose condition never holds *)
C11_Witness ==
    /\ Validated /\ MissingNames = {} /\ AllTasksPass
    /\ FailedWith("CircularDependency")
    /\ \E a, b \in DOMAIN config :
         /\ a # b
         /\ b \in SectionReferences(config[a].finally)
         /\ a \in SectionReferences(config[b].run)
         /\ \A i \in 1..Len(config[b].run) : config[b].run[i].when = <<NeverTrue>>

(* The first position from i on where sep occurs in s, 0 when there is none *)
RECURSIVE IndexOf(_, _, _)
IndexOf(s, sep, i) ==
    IF i + Len(sep) - 1 > Len(s) THEN 0
    ELSE IF SubSeq(s, i, i + Len(sep) - 1) = sep THEN i
    ELSE IndexOf(s, sep, i + 1)

(* The pieces of s between the occurrences of sep *)
RECURSIVE Split(_, _)
Split(s, sep) ==
    LET k == IndexOf(s, sep, 1)
    IN  IF k = 0 THEN <<s>>
        ELSE <<SubSeq(s, 1, k - 1)>> \o Split(SubSeq(s, k + Len(sep), Len(s)), sep)

(* The names on the path of the CircularDependency error *)
ReportedPath == Split(call.res.err.name, Arrow)

ConsecutiveReferences(p) == \A i \in 1..(Len(p) - 1) : Refers(p[i], p[i + 1])

(* C12 as stated: the path of a CircularDependency error starts and ends with
   the same task name, and every consecutive pair of its names is a declared
   subtask reference. *)
C12_PathStartsWhereItEnds ==
    (Validated /\ FailedWith("CircularDependency"))
        => /\ Len(ReportedPath) >= 2
           /\ ReportedPath[1] = ReportedPath[Len(ReportedPath)]
           /\ ConsecutiveReferences(ReportedPath)

(* C12: the path of a CircularDependency error is the walk from the task the
   validator started at down to the first name that repeats: every
   consecutive pair is a declared subtask reference, the names before the
   last one are distinct, and the last name occurs earlier on the path, at
   its start only when the walk started on the cycle. *)
C12_PathLeadsIntoCycle ==
    (Validated /\ FailedWith("CircularDependency"))
        => LET p == ReportedPath
               n == Len(ReportedPath)
           IN  /\ n >= 2
               /\ p[1] \in DOMAIN config
               /\ ConsecutiveReferences(p)
               /\ \A i, j \in 1..(n - 1) : i # j => p[i] # p[j]
               /\ \E k \in 1..(n - 1) : p[k] = p[n]

(* The walk started outside the cycle: a -> b -> b *)
C12_Witness ==
    /\ Validated /\ FailedWith("CircularDependency")
    /\ Len(ReportedPath) = 3
    /\ ReportedPath[1] # ReportedPath[3]
    /\ ReportedPath[2] = ReportedPath[3]

(* C13: when the references form no cycle and every task passes the
   validation of a single task, validate_config fails with TaskNotFound
   exactly when some run or finally section refers to a name that is not a
   key of the registry, and the name it carries is such a name. *)
C13_TaskNotFoundIffMissingName ==
    (Validated /\ ~HasCycle /\ AllTasksPass)
        => /\ FailedWith("TaskNotFound") <=> MissingNames # {}
           /\ FailedWith("TaskNotFound") => call.res.err.name \in MissingNames

(* The only missing name is referred to from a finally block *)
C13_Witness ==
    /\ Validated /\ ~HasCycle /\ AllTasksPass
    /\ call.res = Err(TaskNotFound(Ghost))
    /\ \A a \in DOMAIN config : Ghost \notin SectionReferences(config[a].run)

----------------------------------------------------------------------------
(* runner/task.rs: the builder of the runtime task *)

(* config Command::Simple and Command::Complex(CommandDetail), types.rs:122-147 *)
CommandSimple(cmd) == [kind |-> "Simple", exec |-> cmd]
CommandDetail(exec, print, quiet, dir) ==
    [kind |-> "Complex", exec |-> exec, print |-> print, quiet |-> quiet, dir |-> dir]

(* Command::from_config, task.rs:300-311 *)
Command_from_config(c) ==
    IF c.kind = "Simple" THEN Simple(c.exec)
    ELSE [exec |-> c.exec, print |-> IF c.print.some THEN c.print.val ELSE c.exec,
          quiet |-> c.quiet, dir |-> c.dir]

(* SubTask::from_config, task.rs:352-363 *)
SubTask_from_config(c) ==
    IF c.kind = "Simple" THEN SubTask(c.name, EmptyMap) ELSE SubTask(c.name, c.options)

(* When::from_config, task.rs:373-403: the first field that is given *)
When_from_config(c) ==
    IF c.equal.some THEN Equal(c.equal.val.left, c.equal.val.right)
    ELSE IF c.not_equal.some THEN NotEqual(c.not_equal.val.left, c.not_equal.val.right)
    ELSE IF c.command.some THEN WhenCommand(c.command.val)
    ELSE IF c.exists.some THEN Exists(c.exists.val)
    ELSE IF c.env_set.some THEN EnvSet(c.env_set.val)
    ELSE IF c.env_not_set.some THEN EnvNotSet(c.env_not_set.val)
    ELSE IF c.option_set.some THEN OptionSet(c.option_set.val)
    ELSE IF c.option_not_set.some THEN OptionNotSet(c.option_not_set.val)
    ELSE Always

(* Run::from_config, task.rs:247-270 *)
Run_from_config(c) ==
    IF c.kind = "SimpleCommand" THEN Run(<<>>, <<Simple(c.cmd)>>, <<>>, EmptyMap)
    ELSE Run([i \in 1..Len(c.when) |-> When_from_config(c.when[i])],
             [i \in 1..Len(c.command) |-> Command_from_config(c.command[i])],
             [i \in 1..Len(c.task) |-> SubTask_from_config(c.task[i])],
             c.set_environment)

(* Mutant: the names are compared before source and target *)
Task_validate_config_names_first(c, arg_order) ==
    LET duplicates == {i \in 1..Len(arg_order) : contains_key(c.options, arg_order[i])}
        first_dup == CHOOSE i \in duplicates : \A j \in duplicates : i <= j
    IN  IF duplicates # {} THEN Err(DuplicateNames(arg_order[first_dup]))
        ELSE IF c.source # <<>> /\ c.target = <<>> THEN Err(SourceWithoutTarget)
        ELSE IF c.target # <<>> /\ c.source = <<>> THEN Err(TargetWithoutSource)
        ELSE Ok

(* Task::validate_config, task.rs:83-100; arg_order is the order in which
   config.args iterates *)
Task_validate_config(c, arg_order) ==
    LET duplicates == {i \in 1..Len(arg_order) : contains_key(c.options, arg_order[i])}
        first_dup == CHOOSE i \in duplicates : \A j \in duplicates : i <= j
    IN  IF c.source # <<>> /\ c.target = <<>> THEN Err(SourceWithoutTarget)
        ELSE IF c.target # <<>> /\ c.source = <<>> THEN Err(TargetWithoutSource)
        ELSE IF duplicates # {} THEN Err(DuplicateNames(arg_order[first_dup]))
        ELSE Ok

(* Mutant: only the short spellings of the types are known *)
TaskOption_from_config_short_only(name, c) ==
    [name |-> name,
     option_type |-> CASE c.option_type = "bool" -> "Bool"
                       [] c.option_type = "int" -> "Integer"
                       [] c.option_type = "float" -> "Float"
                       [] OTHER -> "String",
     default |-> c.default, rewrite |-> c.rewrite, environment |-> c.environment]

(* TaskOption::from_config, task.rs:444-464 *)
TaskOption_from_config(name, c) ==
    [name |-> name,
     option_type |-> CASE c.option_type \in {"bool", "boolean"} -> "Bool"
                       [] c.option_type \in {"int", "integer"} -> "Integer"
                       [] c.option_type = "float" -> "Float"
                       [] OTHER -> "String",
     default |-> c.default, rewrite |-> c.rewrite, environment |-> c.environment]

(* Task::from_config, task.rs:54-80: the task it builds has no variables yet;
   options is the field of that name of the task, task.rs:69-73 *)
Task_from_config(name, c, arg_order) ==
    IF ~Task_validate_config(c, arg_order).ok
    THEN [res |-> Task_validate_config(c, arg_order),
          task |-> Task("none", EmptyMap, <<>>, <<>>), options |-> EmptyMap]
    ELSE [res |-> Ok,
          task |-> Task(name, EmptyMap,
                        [i \in 1..Len(c.run) |-> Run_from_config(c.run[i])],
                        [i \in 1..Len(c.finally) |-> Run_from_config(c.finally[i])]),
          options |-> [o \in DOMAIN c.options |->
                          TaskOption_from_config(o, c.options[o])]]

----------------------------------------------------------------------------
(* The task descriptions handed to the builder and to validate_task *)

MaxNames == 2

NameList == <<<<"x">>, <<"y">>, <<"z">>, <<"w">>>>
ArgumentNames == {NameList[i] : i \in 1..MaxNames}

(* "string" is also what an option without a type is given, types.rs:229 and
   253-255 *)
OptionTypes == {"string", "bool", "boolean", "int", "integer", "float", "colour"}

(* run: "a"; or when: command t, command: {exec: b, print: p, dir: ${k}},
   task: child *)
DescribedRuns ==
    {<<SimpleCommand(<<"a">>)>>,
     <<RunItem(<<[WhenFields EXCEPT !.command = Some(<<"t">>)]>>,
               <<CommandDetail(<<"b">>, Some(<<"p">>), TRUE, Some(Placeholder(N_k))),
                 CommandSimple(<<"c">>)>>,
               <<SubTaskSimple(<<"a">>)>>,
               Bag1(N_k, None))>>}

Descriptions ==
    {ConfigTask(s, t, a, o, r, <<>>) :
        s \in {<<>>, <<<<"s">>>>}, t \in {<<>>, <<<<"t">>>>},
        a \in UNION {[S -> {ConfigArg}] : S \in SUBSET ArgumentNames},
        o \in UNION {[S -> {ConfigOption(ty) : ty \in OptionTypes}] :
                        S \in SUBSET ArgumentNames},
        r \in DescribedRuns}

(* schema.rs:23-45, called on a task of the registry *)
ValidateTask ==
    /\ \E n \in DOMAIN config : \E keys \in KeyOrders(config[n]) :
         call' = [fn |-> "validate_task", arg |-> n,
                  res |-> validate_task(n, config[n], keys)]
    /\ UNCHANGED <<task, ctx, env, pc, path, item, idx, result, fres, ret, log, applied,
                   entry, config, cli, text, children>>

(* task.rs:54-80, called on a task of the registry *)
FromConfig ==
    /\ \E n \in DOMAIN config : \E keys \in KeyOrders(config[n]) :
         LET built == Task_from_config(n, config[n], keys.args)
         IN  /\ call' = [fn |-> "from_config", arg |-> n, res |-> built.res,
                          options |-> built.options]
             /\ task' = built.task
    /\ UNCHANGED <<ctx, env, pc, path, item, idx, result, fres, ret, log, applied,
                   entry, config, cli, text, children>>

InitBuild ==
    /\ NotExecuting
    /\ \E d \in Descriptions : config = [n \in {<<"a">>} |-> d]
    /\ cli = Idle
    /\ call = NoCall
    /\ children = <<>>
    /\ text = <<>>

NextBuild ==
    \/ ValidateTask
    \/ FromConfig

SpecBuild == InitBuild /\ [][NextBuild]_vars

----------------------------------------------------------------------------
(* Vocabulary of the properties of the builder *)

Described == config[call.arg]
Checked == call.fn \in {"validate_task", "from_config"}
SourceOnly(t) == t.source # <<>> /\ t.target = <<>>
TargetOnly(t) == t.target # <<>> /\ t.source = <<>>
SharedNames(t) == DOMAIN t.args \cap DOMAIN t.options

(* C14: Task::from_config and validate_task accept a description only if its
   source is empty exactly when its target is and no name is both an argument
   and an option; a source without target gives SourceWithoutTarget, a target
   without source TargetWithoutSource, both before the names are compared,
   and otherwise a shared name gives DuplicateNames of a shared name. *)
C14_BuilderRejectsMalformedTask ==
    Checked =>
        /\ call.res.ok => /\ (Described.source = <<>>) <=> (Described.target = <<>>)
                          /\ SharedNames(Described) = {}
        /\ SourceOnly(Described) => call.res = Err(SourceWithoutTarget)
        /\ TargetOnly(Described) => call.res = Err(TargetWithoutSource)
        /\ (~SourceOnly(Described) /\ ~TargetOnly(Described)
                /\ SharedNames(Described) # {})
              => \E n \in SharedNames(Described) : call.res = Err(DuplicateNames(n))

(* The builder met a target without source and a shared name at once *)
C14_Witness ==
    /\ call.fn = "from_config"
    /\ TargetOnly(Described)
    /\ SharedNames(Described) # {}
    /\ call.res = Err(TargetWithoutSource)

----------------------------------------------------------------------------
(* cli/app.rs: the command line application *)

(* Mutant: the rewrite is used only when nothing else gave a value *)
final_value_fallback(opt, value) ==
    IF value # <<>> THEN value
    ELSE IF opt.rewrite.some THEN opt.rewrite.val ELSE value

(* app.rs:270-275: the rewrite of the option, if it has one *)
final_value(opt, value) == IF opt.rewrite.some THEN opt.rewrite.val ELSE value

(* Mutant: a boolean option is in the bag only when its flag was passed *)
parse_task_vars_flag_only(t, matches, penv) ==
    LET given(n) == contains_key(matches.values, n)
        with_value == {a \in DOMAIN t.args : given(a) \/ t.args[a].default.some}
        value(o) ==
            IF t.options[o].option_type \in {"bool", "boolean"}
            THEN IF o \in matches.flags THEN <<"t", "r", "u", "e">> ELSE <<>>
            ELSE IF given(o) THEN matches.values[o]
            ELSE IF t.options[o].default.some THEN t.options[o].default.val
            ELSE IF t.options[o].environment.some
                 THEN IF contains_key(penv, t.options[o].environment.val)
                      THEN penv[t.options[o].environment.val] ELSE <<>>
            ELSE <<>>
        non_empty == {o \in DOMAIN t.options : final_value(t.options[o], value(o)) # <<>>}
    IN  [n \in with_value \cup non_empty |->
            IF n \in non_empty THEN final_value(t.options[n], value(n))
            ELSE IF given(n) THEN matches.values[n] ELSE t.args[n].default.val]

(* parse_task_vars, app.rs:241-285.  matches is what the user gave on the
   command line: values by name, and the flags that were set. *)
parse_task_vars(t, matches, penv) ==
    LET given(n) == contains_key(matches.values, n)
        with_value == {a \in DOMAIN t.args : given(a) \/ t.args[a].default.some}
        value(o) ==
            IF t.options[o].option_type \in {"bool", "boolean"}
            THEN IF o \in matches.flags THEN <<"t", "r", "u", "e">>
                 ELSE <<"f", "a", "l", "s", "e">>
            ELSE IF given(o) THEN matches.values[o]
            ELSE IF t.options[o].default.some THEN t.options[o].default.val
            ELSE IF t.options[o].environment.some
                 THEN IF contains_key(penv, t.options[o].environment.val)
                      THEN penv[t.options[o].environment.val] ELSE <<>>
            ELSE <<>>
        non_empty == {o \in DOMAIN t.options : final_value(t.options[o], value(o)) # <<>>}
    IN  [n \in with_value \cup non_empty |->
            IF n \in non_empty THEN final_value(t.options[n], value(n))
            ELSE IF given(n) THEN matches.values[n] ELSE t.args[n].default.val]

(* Mutant: the application is built from a configuration nobody validated *)
App_new_unvalidated(registry, order, keys) == Ok

(* App::new and App::with_config_file, app.rs:22-47, the file being parsed *)
App_new(registry, order, keys) == validate_config(registry, order, keys)

(* app.rs:22-47 *)
AppNew ==
    /\ cli.pc = "start"
    /\ \E order \in IterationOrders(config), keys \in RegistryKeyOrders(config) :
         LET made == App_new(config, order, keys)
         IN  cli' = IF made.ok THEN [cli EXCEPT !.pc = "built"]
                    ELSE [cli EXCEPT !.pc = "exit", !.result = made]
    /\ UNCHANGED <<task, ctx, env, pc, path, item, idx, result, fres, ret, log, applied,
                   entry, config, call, text, children>>

(* App::run, app.rs:50-92, up to the call of Task::execute: without a task on
   the command line the help is printed; a task that is not in the registry
   or that the builder rejects is an error; otherwise the task is built, its
   variables are parsed, a new context is created and execute is called *)
AppRun ==
    /\ cli.pc = "built"
    /\ \/ /\ ~cli.invoked.some
          /\ cli' = [cli EXCEPT !.pc = "exit", !.result = Ok]
          /\ UNCHANGED <<task, ctx, pc, entry>>
       \/ /\ cli.invoked.some
          /\ ~contains_key(config, cli.invoked.val.name)
          /\ cli' = [cli EXCEPT !.pc = "exit",
                                !.result = Err(TaskNotFound(cli.invoked.val.name))]
          /\ UNCHANGED <<task, ctx, pc, entry>>
       \/ /\ cli.invoked.some
          /\ contains_key(config, cli.invoked.val.name)
          /\ LET name == cli.invoked.val.name
             IN  \E arg_order \in IterationOrders(config[name].args) :
                   LET built == Task_from_config(name, config[name], arg_order)
                   IN  IF ~built.res.ok
                       THEN /\ cli' = [cli EXCEPT !.pc = "exit", !.result = built.res]
                            /\ UNCHANGED <<task, ctx, pc, entry>>
                       ELSE /\ task' = [built.task EXCEPT
                                          !.vars = parse_task_vars(
                                              config[name], cli.invoked.val.matches, env)]
                            /\ ctx' = [vars |-> EmptyMap, task_stack |-> <<>>,
                                       interpreter |-> Interpreter]
                            /\ entry' = [vars |-> EmptyMap, task_stack |-> <<>>,
                                         env |-> env]
                            /\ pc' = "entry"
                            /\ cli' = [cli EXCEPT !.pc = "executing"]
    /\ UNCHANGED <<env, path, item, idx, result, fres, ret, log, applied, config, call,
                   text, children>>

(* app.rs:92-94: what Task::execute returned is what run returns *)
AppRunReturn ==
    /\ cli.pc = "executing"
    /\ pc = "returned"
    /\ cli' = [cli EXCEPT !.pc = "exit", !.result = ret]
    /\ UNCHANGED <<task, ctx, env, pc, path, item, idx, result, fres, ret, log, applied,
                   entry, config, call, text, children>>

----------------------------------------------------------------------------
(* The configurations and the command lines of the application *)

N_m == <<"m">>
N_c == <<"c">>

(* run: "a${e}" *)
CliCommand == SimpleCommand(<<"a">> \o Placeholder(N_e))

(* when: equal ${e} p; command: b, {exec: d, dir: ${k}}; task: c;
   set-environment k: v *)
CliConditional ==
    RunItem(<<[WhenFields EXCEPT
                 !.equal = Some([left |-> Placeholder(N_e), right |-> <<"p">>])]>>,
            <<CommandSimple(<<"b">>),
              CommandDetail(<<"d">>, None, TRUE, Some(Placeholder(N_k)))>>,
            <<SubTaskSimple(N_c)>>,
            Bag1(N_k, Some(<<"v">>)))

(* finally: command: f; task: {name: c, options: {e: d}} *)
CliCleanup ==
    RunItem(<<>>, <<CommandSimple(<<"f">>)>>,
            <<SubTaskDetail(N_c, Bag1(N_e, <<"d">>))>>, EmptyMap)

(* The task m: well-formed with a string option e; with a source and no
   target; with e both an argument and an option; with an option of a type
   that does not exist *)
CliMainTasks ==
    {ConfigTask(h.source, <<>>, h.args, h.options, r, f) :
        h \in {[source |-> <<>>, args |-> EmptyMap,
                options |-> Bag1(N_e, ConfigOption("string"))],
               [source |-> <<<<"s">>>>, args |-> EmptyMap,
                options |-> Bag1(N_e, ConfigOption("string"))],
               [source |-> <<>>, args |-> Bag1(N_e, ConfigArg),
                options |-> Bag1(N_e, ConfigOption("string"))],
               [source |-> <<>>, args |-> EmptyMap,
                options |-> Bag1(N_e, ConfigOption("colour"))]},
        r \in {<<CliCommand>>, <<CliCommand, CliConditional>>},
        f \in {<<>>, <<CliCleanup>>}}

(* The task c: run: "x"; or a reference back to m; or a reference to a task
   that is not there; or a target without source *)
CliChildTasks ==
    {ConfigTask(<<>>, <<>>, EmptyMap, EmptyMap, <<SimpleCommand(<<"x">>)>>, <<>>),
     ConfigTask(<<>>, <<>>, EmptyMap, EmptyMap,
                <<RunItem(<<NeverTrue>>, <<>>, <<SubTaskSimple(N_m)>>, EmptyMap)>>, <<>>),
     ConfigTask(<<>>, <<>>, EmptyMap, EmptyMap, <<SimpleCommand(<<"x">>)>>,
                <<RunItem(<<>>, <<>>, <<SubTaskSimple(Ghost)>>, EmptyMap)>>),
     ConfigTask(<<>>, <<<<"t">>>>, EmptyMap, EmptyMap, <<SimpleCommand(<<"x">>)>>, <<>>)}

CliRegistries ==
    {[n \in {N_m, N_c} |-> IF n = N_m THEN m ELSE c] :
        m \in CliMainTasks, c \in CliChildTasks}

NoMatches == [values |-> EmptyMap, flags |-> {}]

(* rusk; rusk m; rusk m --e p; rusk c *)
CommandLines ==
    {None,
     Some([name |-> N_m, matches |-> NoMatches]),
     Some([name |-> N_m, matches |-> [values |-> Bag1(N_e, <<"p">>), flags |-> {}]]),
     Some([name |-> N_c, matches |-> NoMatches])}

InitCli ==
    /\ NotExecuting
    /\ config \in CliRegistries
    /\ \E line \in CommandLines : cli = [pc |-> "start", invoked |-> line, result |-> Pending]
    /\ call = NoCall
    /\ children = <<>>
    /\ text = <<>>

(* Context::new has an empty call stack, so the entry guard of task.rs:121-124
   holds for no task the application executes *)
NextCli ==
    \/ AppNew
    \/ AppRun
    \/ ExecuteEnter
    \/ EvaluateWhen
    \/ ExecuteCommand
    \/ ExecuteSubtask
    \/ ApplySetEnvironment
    \/ BeginFinally
    \/ ReturnWithoutFinally
    \/ ReturnAfterFinally
    \/ AppRunReturn

SpecCli == InitCli /\ [][NextCli]_vars

----------------------------------------------------------------------------
(* Vocabulary of the properties of the application *)

ConfigErrorKinds ==
    {"SourceWithoutTarget", "TargetWithoutSource", "DuplicateNames", "TaskNotFound",
     "CircularDependency", "Invalid"}

(* The task set is one that validation accepts *)
TaskSetValid == AllTasksPass /\ ~HasCycle /\ MissingNames = {}

(* C15: when the validation of the task set fails, the application reports a
   configuration error and Task::execute is never called: no step of any
   task is taken and no command is spawned. *)
C15_NoExecutionOfInvalidTaskSet ==
    ~TaskSetValid =>
        /\ cli.pc \in {"start", "exit"}
        /\ pc = "idle"
        /\ log = <<>>
        /\ cli.pc = "exit" =>
             ~cli.result.ok /\ cli.result.err.kind \in ConfigErrorKinds

(* The task on the command line is well-formed and has commands, the task it
   refers to refers back to it: the application ends with the error *)
C15_Witness ==
    /\ cli.pc = "exit"
    /\ cli.invoked.some
    /\ cli.invoked.val.name = N_m
    /\ PassesTaskValidation(config[N_m])
    /\ config[N_m].run # <<>>
    /\ ~cli.result.ok
    /\ cli.result.err.kind = "CircularDependency"
    /\ log = <<>>

----------------------------------------------------------------------------
(* runner/interpolate.rs: the strict variant, and the calls of both *)

(* error.rs: InterpolationError *)
UndefinedVariable(name) ==
    [ok |-> FALSE, val |-> <<>>, err |-> "UndefinedVariable", name |-> name]

(* re.captures(&result), interpolate.rs:75-76: the name of the leftmost match *)
first_capture(s) ==
    LET matches == {i \in 1..Len(s) : MatchesAt(s, i)}
        first == CHOOSE i \in matches : \A j \in matches : i <= j
    IN  IF matches = {} THEN None
        ELSE Some(SubSeq(s, first + 2, FirstClose(s, first + 2) - 1))

(* Mutant: the result of the lenient pass is returned as it is *)
interpolate_strict_unchecked(s, bag, penv) ==
    LET r == interpolate(s, bag, penv)
    IN  [ok |-> r.ok, val |-> r.val, err |-> r.err, name |-> <<>>]

(* interpolate.rs:67-83 *)
interpolate_strict(s, bag, penv) ==
    LET r == interpolate(s, bag, penv)
    IN  IF ~r.ok THEN [ok |-> FALSE, val |-> <<>>, err |-> r.err, name |-> <<>>]
        ELSE IF first_capture(r.val).some THEN UndefinedVariable(first_capture(r.val).val)
        ELSE [ok |-> TRUE, val |-> r.val, err |-> "none", name |-> <<>>]

(* interpolate(text, vars), the variables being those of the context *)
Interpolate ==
    /\ call' = [fn |-> "interpolate", arg |-> text,
                res |-> interpolate(text, ctx.vars, env)]
    /\ UNCHANGED <<task, ctx, env, pc, path, item, idx, result, fres, ret, log, applied,
                   entry, config, cli, text, children>>

(* interpolate(r, vars), r being what interpolate(text, vars) returned *)
InterpolateAgain ==
    /\ call.fn = "interpolate"
    /\ call.res.ok
    /\ call' = [fn |-> "interpolate_again", arg |-> call.res.val,
                res |-> interpolate(call.res.val, ctx.vars, env)]
    /\ UNCHANGED <<task, ctx, env, pc, path, item, idx, result, fres, ret, log, applied,
                   entry, config, cli, text, children>>

(* interpolate_strict(text, vars) *)
InterpolateStrict ==
    /\ call' = [fn |-> "interpolate_strict", arg |-> text,
                res |-> interpolate_strict(text, ctx.vars, env)]
    /\ UNCHANGED <<task, ctx, env, pc, path, item, idx, result, fres, ret, log, applied,
                   entry, config, cli, text, children>>

----------------------------------------------------------------------------
(* The texts, the variables and the environments handed to the interpolator *)

MaxPieces == 3

N_a == <<"a">>
N_b == <<"b">>

(* What a text is made of: placeholders, and the characters of the syntax *)
Pieces == {Placeholder(N_a), Placeholder(N_b), <<"x">>, <<"$">>, <<"{">>, <<"}">>}

RECURSIVE Concat(_)
Concat(pieces) == IF pieces = <<>> THEN <<>> ELSE Head(pieces) \o Concat(Tail(pieces))

ShortTexts == {Concat(p) : p \in SeqsUpTo(Pieces, MaxPieces)}

(* The decimal digits of i, three of them *)
Digits == <<"0", "1", "2", "3", "4", "5", "6", "7", "8", "9">>
Numbered(i) ==
    <<Digits[(i \div 100) + 1], Digits[((i \div 10) % 10) + 1], Digits[(i % 10) + 1]>>

(* ${a}${001}${002}...: a and as many other names as the ceiling counts *)
RECURSIVE NumberedPlaceholders(_, _)
NumberedPlaceholders(i, n) ==
    IF i > n THEN <<>> ELSE Placeholder(Numbered(i)) \o NumberedPlaceholders(i + 1, n)

ManyNames == Placeholder(N_a) \o NumberedPlaceholders(1, RecursionCeiling)

(* Values: plain, empty, and values that hold a placeholder themselves *)
VariableValues == {<<"y">>, <<>>, Placeholder(N_a), Placeholder(N_b)}
VariableBags == UNION {[S -> VariableValues] : S \in SUBSET {N_a, N_b}}
Environments == {EmptyMap, Bag1(N_b, <<"z">>)}

(* 001: "${002}", 002: "${003}", ..., the last of the k names: "v" *)
Chain(k) ==
    [n \in {Numbered(i) : i \in 1..k} |->
        IF n = Numbered(k) THEN <<"v">>
        ELSE Placeholder(Numbered((CHOOSE i \in 1..k : Numbered(i) = n) + 1))]

(* Chains of one name, of a few, of as many as the ceiling counts, and of
   one more *)
ChainLengths == {1, 2, 3, RecursionCeiling, RecursionCeiling + 1}

InitInterpolate ==
    /\ task = Task("none", EmptyMap, <<>>, <<>>)
    /\ \/ /\ text = Placeholder(Numbered(1))
          /\ \E k \in ChainLengths :
               ctx = [vars |-> Chain(k), task_stack |-> <<>>, interpreter |-> Interpreter]
          /\ env \in Environments
       \/ /\ text \in ShortTexts
          /\ \E bag \in VariableBags :
               ctx = [vars |-> bag, task_stack |-> <<>>, interpreter |-> Interpreter]
          /\ env \in Environments
       \/ /\ text = ManyNames
          /\ \E bag \in {EmptyMap, Bag1(N_a, <<"y">>)} :
               ctx = [vars |-> bag, task_stack |-> <<>>, interpreter |-> Interpreter]
          /\ env = EmptyMap
    /\ pc = "idle"
    /\ path = "run"
    /\ item = 0
    /\ idx = 0
    /\ result = Pending
    /\ fres = Pending
    /\ ret = Pending
    /\ log = <<>>
    /\ applied = EmptyMap
    /\ entry = [vars |-> ctx.vars, task_stack |-> <<>>, env |-> env]
    /\ config = EmptyMap
    /\ cli = Idle
    /\ call = NoCall
    /\ children = <<>>

NextInterpolate ==
    \/ Interpolate
    \/ InterpolateAgain
    \/ InterpolateStrict

SpecInterpolate == InitInterpolate /\ [][NextInterpolate]_vars

----------------------------------------------------------------------------
(* Vocabulary of the properties of the interpolator, over the strings
   themselves *)

(* "${", a character other than "}", and a "}" somewhere after it *)
HasPlaceholderAt(s, i) ==
    /\ i + 3 <= Len(s)
    /\ s[i] = "$"
    /\ s[i + 1] = "{"
    /\ s[i + 2] # "}"
    /\ \E j \in (i + 3)..Len(s) : s[j] = "}"

PlaceholderFree(s) == \A i \in 1..Len(s) : ~HasPlaceholderAt(s, i)

(* The end of the placeholder at i: its first "}" *)
ClosingBrace(s, i) ==
    CHOOSE j \in (i + 3)..Len(s) : s[j] = "}" /\ \A k \in (i + 3)..(j - 1) : s[k] # "}"

NameAt(s, i) == SubSeq(s, i + 2, ClosingBrace(s, i) - 1)

(* The names of the placeholders of s from position i on, read left to right,
   a placeholder ending before the next one starts *)
RECURSIVE PlaceholderNames(_, _)
PlaceholderNames(s, i) ==
    LET starts == {j \in i..Len(s) : HasPlaceholderAt(s, j)}
        at == CHOOSE j \in starts : \A k \in starts : j <= k
    IN  IF starts = {} THEN {}
        ELSE {NameAt(s, at)} \cup PlaceholderNames(s, ClosingBrace(s, at) + 1)

(* The name of the leftmost placeholder of s *)
FirstName(s) ==
    LET starts == {j \in 1..Len(s) : HasPlaceholderAt(s, j)}
    IN  NameAt(s, CHOOSE j \in starts : \A k \in starts : j <= k)

Resolves(n) == n \in DOMAIN ctx.vars \/ n \in DOMAIN env

(* part occurs in s *)
Occurs(part, s) ==
    \E i \in 1..(Len(s) - Len(part) + 1) : SubSeq(s, i, i + Len(part) - 1) = part

(* No value of a variable holds a character of the placeholder syntax *)
PlainValues ==
    /\ \A n \in DOMAIN ctx.vars : \A k \in 1..Len(ctx.vars[n]) :
         ctx.vars[n][k] \notin {"$", "{", "}"}
    /\ \A n \in DOMAIN env : \A k \in 1..Len(env[n]) : env[n][k] \notin {"$", "{", "}"}

Interpolated == call.fn = "interpolate"

(* C16 as stated: interpolate replaces every occurrence of every placeholder,
   repeated occurrences of a name included, so a placeholder is left in the
   result only if its name resolves neither in vars nor in the environment
   (the values being plain text). *)
C16_EveryOccurrenceReplaced ==
    (Interpolated /\ PlainValues /\ call.res.ok)
        => \A n \in PlaceholderNames(call.res.val, 1) : ~Resolves(n)

(* C17: a string without placeholder is returned as it is, whatever the
   variables. *)
C17_PlainTextUnchanged ==
    (Interpolated /\ PlaceholderFree(text))
        => call.res = [ok |-> TRUE, val |-> text, err |-> "none"]

(* A text made of the characters of the syntax, without placeholder, and
   variables that are set *)
C17_Witness ==
    /\ Interpolated
    /\ PlaceholderFree(text)
    /\ \E i, j \in 1..Len(text) : text[i] = "$" /\ text[j] = "{"
    /\ DOMAIN ctx.vars # {}
    /\ call.res.val = text

(* C18: when interpolate(s, vars) has no placeholder left, interpolating it
   again returns it unchanged. *)
C18_IdempotentOnceResolved ==
    (call.fn = "interpolate_again" /\ PlaceholderFree(call.arg))
        => call.res.ok /\ call.res.val = call.arg

(* The text had placeholders, the first result has none and still has a "$" *)
C18_Witness ==
    /\ call.fn = "interpolate_again"
    /\ ~PlaceholderFree(text)
    /\ PlaceholderFree(call.arg)
    /\ \E i \in 1..Len(call.arg) : call.arg[i] = "$"
    /\ call.res.val = call.arg

(* C19 as stated: when names of the text resolve neither in vars nor in the
   environment, interpolate returns Ok and the result holds their
   placeholders literally. *)
C19_LenientNeverFails ==
    (Interpolated /\ \E n \in PlaceholderNames(text, 1) : ~Resolves(n))
        => /\ call.res.ok
           /\ \A n \in PlaceholderNames(text, 1) :
                ~Resolves(n) => Occurs(Placeholder(n), call.res.val)

(* C20: interpolate_strict returns Ok(r) only for an r without placeholder,
   and when the result of the lenient pass has a placeholder left it fails
   with UndefinedVariable of the name of the leftmost one. *)
C20_StrictRejectsRemainingPlaceholder ==
    call.fn = "interpolate_strict"
        => LET lenient == interpolate(text, ctx.vars, env)
           IN  /\ call.res.ok => PlaceholderFree(call.res.val)
               /\ (lenient.ok /\ ~PlaceholderFree(lenient.val))
                     => call.res = UndefinedVariable(FirstName(lenient.val))

(* Two names are left by the lenient pass, the error names the first *)
C20_Witness ==
    /\ call.fn = "interpolate_strict"
    /\ ~call.res.ok
    /\ call.res.err = "UndefinedVariable"
    /\ Cardinality(PlaceholderNames(interpolate(text, ctx.vars, env).val, 1)) = 2
    /\ call.res.name = FirstName(interpolate(text, ctx.vars, env).val)

----------------------------------------------------------------------------
(* interpolate.rs:15-64, one call of the closure of replace_all at a time *)

(* The inputs of a call: a text, the variables and the process environment *)
LoopInputs ==
    {[s |-> s, bag |-> bag, penv |-> penv] :
        s \in ShortTexts, bag \in VariableBags, penv \in Environments}
    \cup {[s |-> ManyNames, bag |-> bag, penv |-> EmptyMap] :
              bag \in {EmptyMap, Bag1(N_a, <<"y">>)}}

(* The first pass of the loop begins: interpolate.rs:24-26; call.arg is
   `result`, call.pos is where replace_all looks for its next match, call.out
   is what it has built *)
begin_pass(s, seen) ==
    [fn |-> "interpolate_loop", arg |-> s, pos |-> 1, out |-> <<>>, seen |-> seen,
     changed |-> FALSE, res |-> Pending]

(* A call of interpolate(s, vars) in some process environment:
   interpolate.rs:15-24 *)
InterpolateEnter ==
    /\ call = NoCall
    /\ \E input \in LoopInputs :
         /\ text' = input.s
         /\ ctx' = [vars |-> input.bag, task_stack |-> <<>>, interpreter |-> Interpreter]
         /\ env' = input.penv
         /\ call' = begin_pass(input.s, {})
    /\ UNCHANGED <<task, pc, path, item, idx, result, fres, ret, log, applied, entry,
                   config, cli, children>>

(* The call c after the closure returned r for the match at `at`:
   interpolate.rs:26-51 *)
after_match(c, at, close, r) ==
    [c EXCEPT !.pos = close + 1,
              !.out = c.out \o SubSeq(c.arg, c.pos, at - 1) \o r.out,
              !.seen = r.seen,
              !.changed = r.changed]

(* interpolate.rs:27-50: replace_all found a match and calls the closure *)
InterpolateReplace ==
    /\ call.fn = "interpolate_loop"
    /\ NextMatch(call.arg, call.pos) # 0
    /\ \E at \in {NextMatch(call.arg, call.pos)} :
       \E close \in {FirstClose(call.arg, at + 2)} :
         call' = after_match(call, at, close,
                             replace_capture(SubSeq(call.arg, at + 2, close - 1),
                                             ctx.vars, env, call.seen, call.changed))
    /\ UNCHANGED <<task, ctx, env, pc, path, item, idx, result, fres, ret, log, applied,
                   entry, config, cli, text, children>>

(* What the end of a pass that built `out` makes of the call:
   interpolate.rs:51-63 *)
after_pass(c, out) ==
    IF ~c.changed
    THEN [c EXCEPT !.fn = "interpolate", !.out = out,
                   !.res = [ok |-> TRUE, val |-> out, err |-> "none"]]
    ELSE IF Cardinality(c.seen) > RecursionCeiling
    THEN [c EXCEPT !.fn = "interpolate", !.out = out,
                   !.res = [ok |-> FALSE, val |-> <<>>, err |-> "RecursiveInterpolation"]]
    ELSE begin_pass(out, c.seen)

(* interpolate.rs:51-61: no match is left, the pass is over *)
InterpolateEndPass ==
    /\ call.fn = "interpolate_loop"
    /\ NextMatch(call.arg, call.pos) = 0
    /\ call' = after_pass(call, call.out \o SubSeq(call.arg, call.pos, Len(call.arg)))
    /\ UNCHANGED <<task, ctx, env, pc, path, item, idx, result, fres, ret, log, applied,
                   entry, config, cli, text, children>>

InitInterpolateLoop ==
    /\ task = Task("none", EmptyMap, <<>>, <<>>)
    /\ ctx = [vars |-> EmptyMap, task_stack |-> <<>>, interpreter |-> Interpreter]
    /\ env = EmptyMap
    /\ text = <<>>
    /\ pc = "idle"
    /\ path = "run"
    /\ item = 0
    /\ idx = 0
    /\ result = Pending
    /\ fres = Pending
    /\ ret = Pending
    /\ log = <<>>
    /\ applied = EmptyMap
    /\ entry = [vars |-> EmptyMap, task_stack |-> <<>>, env |-> EmptyMap]
    /\ config = EmptyMap
    /\ cli = Idle
    /\ call = NoCall
    /\ children = <<>>

NextInterpolateLoop ==
    \/ InterpolateEnter
    \/ InterpolateReplace
    \/ InterpolateEndPass

(* The loop is sequential code: a step that can be made is made *)
SpecInterpolateLoop ==
    InitInterpolateLoop /\ [][NextInterpolateLoop]_vars /\ WF_vars(NextInterpolateLoop)

InterpolateReturned == call.fn = "interpolate"

(* The names the call substituted: those it met that resolve *)
Substituted == {n \in call.seen : Resolves(n)}

(* A value of the bag refers to its own name, or two values to each other *)
SelfReference == \E n \in DOMAIN ctx.vars : ctx.vars[n] = Placeholder(n)
MutualReference ==
    \E n, m \in DOMAIN ctx.vars :
        n # m /\ ctx.vars[n] = Placeholder(m) /\ ctx.vars[m] = Placeholder(n)

(* C21: interpolate terminates for every input, bags with self-reference or
   mutual reference included: every call returns after finitely many passes. *)
C21_InterpolateTerminates == <>InterpolateReturned

(* A call on ${a} with a = "${b}" and b = "${a}" returned ${a} *)
C21_Witness ==
    /\ InterpolateReturned
    /\ MutualReference
    /\ text = Placeholder(N_a)
    /\ call.seen = {N_a, N_b}
    /\ call.res = [ok |-> TRUE, val |-> Placeholder(N_a), err |-> "none"]

(* C22 as stated: interpolate fails with RecursiveInterpolation if and only if
   the number of distinct names substituted during the call exceeds the
   ceiling. *)
C22_FailsIffSubstitutionsExceedCeiling ==
    InterpolateReturned
        => ((~call.res.ok /\ call.res.err = "RecursiveInterpolation")
                <=> Cardinality(Substituted) > RecursionCeiling)

----------------------------------------------------------------------------
(* The commands, the conditions and the set-environment values of the calls *)

(* "e ${a}": a command that names a variable *)
Greeting == <<"e", " ">> \o Placeholder(N_a)

CommandTexts == {Greeting, <<"f">>, Placeholder(N_a) \o Placeholder(N_b), ManyNames}
CommandDirs == {None, Some(Placeholder(N_b)), Some(ManyNames)}

CalledCommands ==
    {Simple(t) : t \in CommandTexts}
    \cup {Complex(Greeting, q, d) : q \in BOOLEAN, d \in CommandDirs}

CalledConditions ==
    {Always, Equal(ManyNames, <<"y">>), Equal(Placeholder(N_a), <<"y">>),
     NotEqual(<<"y">>, ManyNames), Exists(ManyNames), EnvSet(ManyNames),
     EnvNotSet(Placeholder(N_a)), WhenCommand(ManyNames), WhenCommand(<<"t">>),
     OptionSet(N_a), OptionNotSet(N_a)}

CalledValues == {None, Some(Placeholder(N_a)), Some(ManyNames)}

(* with_interpreter, context.rs:81-84: the interpreter is never empty *)
Interpreters == {Interpreter, <<"bash">>, <<"python", "-u", "-c">>}

(* with_vars, context.rs:65-68 *)
CalledBags ==
    {EmptyMap, Bag1(N_a, <<"y">>), Bag1(N_b, <<"y">>),
     Bag2(N_a, Placeholder(N_b), N_b, <<"y">>), Bag2(N_a, <<"y">>, N_b, <<>>)}

----------------------------------------------------------------------------
(* Calls of execute_command (command.rs), of evaluate_when (when.rs) and of
   one entry of set-environment (task.rs:203-214), each in a context and a
   process environment *)

(* command.rs:10-73 with the outcome oc of Command::status() *)
ExecuteCommandCall ==
    /\ call = NoCall
    /\ \E cmd \in CalledCommands, oc \in ChildOutcomes :
         call' = [fn |-> "execute_command", arg |-> cmd, oc |-> oc,
                  res |-> execute_command(cmd, ctx, env, oc)]
    /\ UNCHANGED <<task, ctx, env, pc, path, item, idx, result, fres, ret, log, applied,
                   entry, config, cli, text, children>>

(* when.rs:20-67 *)
EvaluateWhenCall ==
    /\ call = NoCall
    /\ \E when \in CalledConditions :
       \E oc \in ProbeOutcomes(when), fs_exists \in FsAnswers(when) :
         call' = [fn |-> "evaluate_when", arg |-> when, oc |-> oc,
                  res |-> evaluate_when(when, ctx, env, oc, fs_exists)]
    /\ UNCHANGED <<task, ctx, env, pc, path, item, idx, result, fres, ret, log, applied,
                   entry, config, cli, text, children>>

(* task.rs:203-214: the entry is applied, nothing is returned *)
ApplyEntryCall ==
    /\ call = NoCall
    /\ \E value \in CalledValues :
         call' = [fn |-> "apply_entry", arg |-> value, oc |-> "none",
                  res |-> [res |-> Ok,
                           st |-> apply_entry([vars |-> ctx.vars, env |-> env], N_k,
                                              value)]]
    /\ UNCHANGED <<task, ctx, env, pc, path, item, idx, result, fres, ret, log, applied,
                   entry, config, cli, text, children>>

InitCommand ==
    /\ task = Task("none", EmptyMap, <<>>, <<>>)
    /\ \E bag \in CalledBags, interpreter \in Interpreters :
         ctx = [vars |-> bag, task_stack |-> <<>>, interpreter |-> interpreter]
    /\ env \in Environments
    /\ text = <<>>
    /\ pc = "idle"
    /\ path = "run"
    /\ item = 0
    /\ idx = 0
    /\ result = Pending
    /\ fres = Pending
    /\ ret = Pending
    /\ log = <<>>
    /\ applied = EmptyMap
    /\ entry = [vars |-> ctx.vars, task_stack |-> <<>>, env |-> env]
    /\ config = EmptyMap
    /\ cli = Idle
    /\ call = NoCall
    /\ children = <<>>

NextCommand ==
    \/ ExecuteCommandCall
    \/ EvaluateWhenCall
    \/ ApplyEntryCall

SpecCommand == InitCommand /\ [][NextCommand]_vars

----------------------------------------------------------------------------
(* C23: execute_command returns Ok exactly when the child was spawned and
   exited with status 0; a child that exits with a non-zero code gives
   CommandFailed(Some(code)), and a child that cannot be spawned gives
   CommandFailed(None). *)
C23_CommandResultFollowsExitStatus ==
    call.fn = "execute_command"
        => /\ call.res.res.ok <=> (call.res.spawn /\ call.oc = "exit0")
           /\ (call.res.spawn /\ call.oc = "exit1")
                  => call.res.res = Err(CommandFailed(SomeCode(1)))
           /\ (call.res.spawn /\ call.oc = "nospawn")
                  => call.res.res = Err(CommandFailed(NoCode))

(* "f" run by the interpreter exits with code 1 *)
C23_Witness ==
    /\ call.fn = "execute_command"
    /\ call.arg = Simple(<<"f">>)
    /\ call.oc = "exit1"
    /\ call.res.spawn
    /\ call.res.res = Err(CommandFailed(SomeCode(1)))

----------------------------------------------------------------------------
(* error.rs:64-82: the variants of ExecutionError *)
ExecutionErrorKinds ==
    {"CommandFailed", "FailedCondition", "MissingOption", "InvalidOption", "Cache",
     "Environment"}

(* The strings the call hands to interpolate: command.rs:12 and 27,
   when.rs:24-54 and command.rs:78, task.rs:205 *)
InterpolatedOperands ==
    CASE call.fn = "execute_command"
           -> {call.arg.exec} \cup (IF call.arg.dir.some THEN {call.arg.dir.val} ELSE {})
      [] call.fn = "evaluate_when"
           -> IF call.arg.condition \in {"Equal", "NotEqual"}
              THEN {call.arg.left, call.arg.right}
              ELSE IF call.arg.condition \in {"Command", "Exists", "EnvSet", "EnvNotSet"}
              THEN {call.arg.left}
              ELSE {}
      [] call.fn = "apply_entry"
           -> IF call.arg.some THEN {call.arg.val} ELSE {}
      [] OTHER -> {}

RaisesInterpolationError ==
    \E s \in InterpolatedOperands : ~interpolate(s, ctx.vars, env).ok

(* C24 as stated: an InterpolationError raised while interpolating a command
   string, a working-directory override, a condition operand or a
   set-environment value is never reported as an ExecutionError variant and
   is never silently discarded: the call fails, with an error that is not an
   ExecutionError. *)
C24_InterpolationErrorKeepsFamily ==
    RaisesInterpolationError
        => /\ ~call.res.res.ok
           /\ call.res.res.err.kind \notin ExecutionErrorKinds

----------------------------------------------------------------------------
(* C30: every command executed is run as the interpreter's argv followed by
   exactly one more argument, the exec string interpolated against the
   context bag of that moment, and execute_command returns Ok when that child
   exits with status 0. *)
C30_ArgvIsInterpreterThenInterpolatedExec ==
    (call.fn = "execute_command" /\ call.res.spawn)
        => /\ Len(call.res.argv) = Len(ctx.interpreter) + 1
           /\ SubSeq(call.res.argv, 1, Len(ctx.interpreter)) = ctx.interpreter
           /\ call.res.argv[Len(call.res.argv)]
                  = interpolate(call.arg.exec, ctx.vars, env).val
           /\ call.oc = "exit0" => call.res.res.ok

(* "e ${a}" with a = y runs sh -c "e y" *)
C30_Witness ==
    /\ call.fn = "execute_command"
    /\ call.arg = Simple(Greeting)
    /\ ctx.vars = Bag1(N_a, <<"y">>)
    /\ ctx.interpreter = <<"sh", "-c">>
    /\ call.oc = "exit0"
    /\ call.res.argv = <<"sh", "-c", <<"e", " ", "y">>>>
    /\ call.res.res = Ok

----------------------------------------------------------------------------
(* The child processes of a run. Command::status() (command.rs:63-65 and
   99-101) starts the child and blocks until it has exited; here the call is
   two steps, the child being alive in between. *)

Child(kind, oc) == [kind |-> kind, oc |-> oc]

(* The outcomes of a child that was started *)
StartedOutcomes == ChildOutcomes \ {"nospawn"}

(* Mutant: the child is started and not waited for *)
wait_pc_detached(stage) == stage

(* Where the executor is while status() waits for the child *)
wait_pc(stage) == IF stage = "cmd" THEN "cmd_wait" ELSE "when_wait"

(* command.rs:63: the child of a command is started *)
SpawnCommand ==
    /\ pc = "cmd"
    /\ \E oc \in StartedOutcomes :
         /\ execute_command(Items(path)[item].commands[idx], ctx, env, oc).spawn
         /\ children' = Append(children, Child("cmd", oc))
    /\ pc' = wait_pc("cmd")
    /\ UNCHANGED <<task, ctx, env, path, item, idx, result, fres, ret, log, applied,
                   entry, config, cli, call, text>>

(* command.rs:63-72: the child has exited and execute_command returns *)
WaitCommand ==
    /\ pc = "cmd_wait"
    /\ children # <<>>
    /\ CommandReturns(Head(children).oc)
    /\ children' = Tail(children)
    /\ UNCHANGED <<task, ctx, env, path, ret, applied, entry, config, cli, call, text>>

(* command.rs:12-17, 27-32, 63-65: execute_command returns without a child,
   an interpolation failed or the interpreter could not be started *)
CommandWithoutChild ==
    /\ pc = "cmd"
    /\ CommandReturns("nospawn")
    /\ UNCHANGED <<task, ctx, env, path, ret, applied, entry>>
    /\ UNCHANGED <<config, cli, call, text, children>>

(* command.rs:99: the probe of a Command condition is started *)
SpawnProbe ==
    /\ pc = "when"
    /\ Items(path)[item].when[idx].condition = "Command"
    /\ \E oc \in StartedOutcomes :
         /\ evaluate_when(Items(path)[item].when[idx], ctx, env, oc, FALSE).spawn
         /\ children' = Append(children, Child("when", oc))
    /\ pc' = wait_pc("when")
    /\ UNCHANGED <<task, ctx, env, path, item, idx, result, fres, ret, log, applied,
                   entry, config, cli, call, text>>

(* command.rs:99-104: the probe has exited and check_command returns *)
WaitProbe ==
    /\ pc = "when_wait"
    /\ children # <<>>
    /\ WhenReturns(Head(children).oc, FALSE)
    /\ children' = Tail(children)
    /\ UNCHANGED <<task, ctx, env, path, ret, applied, entry, config, cli, call, text>>

(* when.rs:20-67: a condition that runs no child, and a probe that could not
   be started *)
WhenWithoutChild ==
    /\ pc = "when"
    /\ IF Items(path)[item].when[idx].condition = "Command"
       THEN WhenReturns("nospawn", FALSE)
       ELSE \E fs_exists \in FsAnswers(Items(path)[item].when[idx]) :
              WhenReturns("exit0", fs_exists)
    /\ UNCHANGED <<task, ctx, env, path, ret, applied, entry>>
    /\ UNCHANGED <<config, cli, call, text, children>>

NextChildren ==
    \/ ExecuteRecursionGuard
    \/ ExecuteEnter
    \/ WhenWithoutChild
    \/ SpawnProbe
    \/ WaitProbe
    \/ CommandWithoutChild
    \/ SpawnCommand
    \/ WaitCommand
    \/ ExecuteSubtask
    \/ ApplySetEnvironment
    \/ BeginFinally
    \/ ReturnWithoutFinally
    \/ ReturnAfterFinally

SpecChildren == Init /\ [][NextChildren]_vars

(* C25: execution is strictly sequential. At every point of a run at most one
   child process (command or probe) is alive; while a child is alive the
   executor waits in status(), and its only step is the exit of that child, so
   the next command, probe or run-item starts only afterwards. *)
C25_AtMostOneChildAlive ==
    [][/\ Len(children') <= 1
       /\ children' # <<>> => pc' \in {"cmd_wait", "when_wait"}
       /\ children # <<>> => children' = <<>>]_vars

(* A command is running after an earlier command and an earlier probe have
   exited *)
C25_Witness ==
    /\ Len(children) = 1
    /\ children[1].kind = "cmd"
    /\ pc = "cmd_wait"
    /\ \E k \in 1..Len(log) : log[k].kind = "cmd" /\ log[k].spawn
    /\ \E k \in 1..Len(log) : log[k].kind = "when" /\ log[k].spawn

----------------------------------------------------------------------------
(* The phase of the invocation of execute, task.rs:120-161: before the entry
   guard, in execute_run_items (or just back from it), in
   execute_finally_items (or just back from it), returned *)
PhaseOf(p, pth, r) ==
    CASE p = "entry" -> "NotStarted"
      [] p = "returned" -> IF r.ok THEN "Done" ELSE "Failed"
      [] pth = "run" -> "Running"
      [] OTHER -> "Finalizing"

Phase == PhaseOf(pc, path, ret)

PhaseSteps ==
    {<<"NotStarted", "Running">>,
     <<"Running", "Running">>, <<"Running", "Finalizing">>,
     <<"Running", "Done">>, <<"Running", "Failed">>,
     <<"Finalizing", "Finalizing">>, <<"Finalizing", "Done">>,
     <<"Finalizing", "Failed">>}

(* C26: an invocation that passes the entry guard goes NotStarted, Running,
   optionally Finalizing, then Done or Failed, and no phase is entered again;
   Finalizing is entered exactly when the finally path is not empty; once
   Finalizing has begun no step of the main path is executed; the outcome is
   Done exactly when the main path and the finally path both succeeded. *)
C26_PhasesOfAnInvocation ==
    [][~OnStackAtEntry
         => /\ <<Phase, Phase'>> \in PhaseSteps
            /\ Phase' = "Finalizing" => task.finally # <<>>
            /\ Phase' \in {"Done", "Failed"}
                  => ((Phase = "Finalizing") <=> (task.finally # <<>>))
            /\ Phase = "Finalizing"
                  => \A k \in 1..Len(log') : k > Len(log) => log'[k].path = "finally"
            /\ Phase' = "Done"
                  <=> (/\ pc' = "returned"
                       /\ result'.ok
                       /\ (task.finally # <<>> => fres'.ok))]_vars

(* The main path succeeded, the finally path ran and failed: Failed is
   reached through Finalizing *)
C26_Witness ==
    /\ ~OnStackAtEntry
    /\ Phase = "Failed"
    /\ path = "finally"
    /\ result.ok
    /\ fres # Pending /\ ~fres.ok
    /\ \E k \in 1..Len(log) : log[k].path = "run" /\ log[k].kind = "cmd"
    /\ \E k \in 1..Len(log) : log[k].path = "finally" /\ log[k].kind = "cmd"

----------------------------------------------------------------------------
(* C27: on entry to a task that passes the guard, the bag of the task is
   merged into the bag of the context: afterwards every key of the task bag
   has the task's value in the context bag, a previous value for the key being
   overwritten, and every key of the context that is not in the task bag keeps
   its value. *)
C27_TaskBagMergedOnEntry ==
    [][(pc = "entry" /\ pc' # "returned")
         => /\ \A k \in DOMAIN task.vars :
                  k \in DOMAIN ctx'.vars /\ ctx'.vars[k] = task.vars[k]
            /\ \A k \in (DOMAIN ctx.vars) \ (DOMAIN task.vars) :
                  k \in DOMAIN ctx'.vars /\ ctx'.vars[k] = ctx.vars[k]]_vars

(* The task has e = d, the context had e = p: after the entry it has e = d *)
C27_Witness ==
    /\ pc \notin {"entry", "returned"}
    /\ log = <<>>
    /\ N_e \in DOMAIN entry.vars
    /\ entry.vars[N_e] = <<"p">>
    /\ task.vars = Bag1(N_e, <<"d">>)
    /\ ctx.vars[N_e] = <<"d">>

(* The context had k = 0, the task has e = p: after the entry both are there *)
C27_KeptKey ==
    /\ pc \notin {"entry", "returned"}
    /\ log = <<>>
    /\ entry.vars = Bag1(N_k, <<"0">>)
    /\ task.vars = Bag1(N_e, <<"p">>)
    /\ ctx.vars = Bag2(N_k, <<"0">>, N_e, <<"p">>)

----------------------------------------------------------------------------
(* The typed enum an option type string stands for *)
DeclaredType(option_type) ==
    IF option_type \in {"bool", "boolean"} THEN "Bool"
    ELSE IF option_type \in {"int", "integer"} THEN "Integer"
    ELSE IF option_type = "float" THEN "Float"
    ELSE "String"

(* C28: Task::from_config never fails on an option type: whether it fails
   does not depend on the types of the options, and in the task it builds
   bool and boolean are Bool, int and integer are Integer, float is Float and
   every other type string, the "string" of an option without a type
   included, is String. *)
C28_BuilderNeverFailsOnOptionType ==
    call.fn = "from_config"
        => /\ call.res.ok <=> (/\ ~SourceOnly(Described)
                                /\ ~TargetOnly(Described)
                                /\ SharedNames(Described) = {})
           /\ call.res.ok
                 => /\ DOMAIN call.options = DOMAIN Described.options
                    /\ \A o \in DOMAIN call.options :
                          call.options[o].option_type
                              = DeclaredType(Described.options[o].option_type)

(* A task with an option of type boolean and an option of type colour is
   built, with a Bool and a String option *)
C28_Witness ==
    /\ call.fn = "from_config"
    /\ call.res.ok
    /\ \E o, q \in DOMAIN call.options :
         /\ Described.options[o].option_type = "boolean"
         /\ call.options[o].option_type = "Bool"
         /\ Described.options[q].option_type = "colour"
         /\ call.options[q].option_type = "String"

----------------------------------------------------------------------------
(* Calls of parse_task_vars (app.rs:241-285) for a task with the option e *)

(* type: string or bool; default: d or none; environment: j or none;
   rewrite: r, the empty string or none *)
DeclaredOptions ==
    {[option_type |-> ty, default |-> d, environment |-> v, rewrite |-> w] :
        ty \in {"string", "bool"},
        d \in {None, Some(<<"d">>)},
        v \in {None, Some(N_j)},
        w \in {None, Some(<<"r">>), Some(<<>>)}}

(* rusk m; rusk m --e u (the value of a string option, the flag of a bool
   option) *)
GivenMatches ==
    {NoMatches, [values |-> Bag1(N_e, <<"u">>), flags |-> {}],
     [values |-> EmptyMap, flags |-> {N_e}]}

(* app.rs:78 *)
ParseTaskVarsCall ==
    /\ call = NoCall
    /\ call' = [fn |-> "parse_task_vars", arg |-> cli.invoked.val.name,
                res |-> parse_task_vars(config[cli.invoked.val.name],
                                        cli.invoked.val.matches, env)]
    /\ UNCHANGED <<task, ctx, env, pc, path, item, idx, result, fres, ret, log, applied,
                   entry, config, cli, text, children>>

InitVars ==
    /\ task = Task("none", EmptyMap, <<>>, <<>>)
    /\ ctx = [vars |-> EmptyMap, task_stack |-> <<>>, interpreter |-> Interpreter]
    /\ env \in {EmptyMap, Bag1(N_j, <<"v">>)}
    /\ pc = "idle"
    /\ path = "run"
    /\ item = 0
    /\ idx = 0
    /\ result = Pending
    /\ fres = Pending
    /\ ret = Pending
    /\ log = <<>>
    /\ applied = EmptyMap
    /\ entry = [vars |-> EmptyMap, task_stack |-> <<>>, env |-> env]
    /\ \E opt \in DeclaredOptions :
         config = [n \in {N_m} |->
                      ConfigTask(<<>>, <<>>, Bag1(N_k, [required |-> FALSE,
                                                        default |-> Some(<<"0">>)]),
                                 Bag1(N_e, opt), <<CliCommand>>, <<>>)]
    /\ \E m \in GivenMatches :
         cli = [pc |-> "built", invoked |-> Some([name |-> N_m, matches |-> m]),
                result |-> Pending]
    /\ call = NoCall
    /\ children = <<>>
    /\ text = <<>>

NextVars == ParseTaskVarsCall

SpecVars == InitVars /\ [][NextVars]_vars

(* The options of the invoked task that declare a rewrite *)
Rewritten == {o \in DOMAIN config[call.arg].options : config[call.arg].options[o].rewrite.some}
RewriteOf(o) == config[call.arg].options[o].rewrite.val

(* The user gave the option on the command line *)
GivenByUser(o) ==
    \/ contains_key(cli.invoked.val.matches.values, o)
    \/ o \in cli.invoked.val.matches.flags

(* C29 as stated: in the bag built for an invoked task, an option that
   declares a rewrite always has the rewrite literal as its value. *)
C29_RewrittenOptionHasRewriteValue ==
    call.fn = "parse_task_vars"
        => \A o \in Rewritten : contains_key(call.res, o) /\ call.res[o] = RewriteOf(o)

(* C29, amended: an option that declares a non-empty rewrite has the rewrite
   literal as its value in the bag, whatever the flag, the default or the
   environment gave; an option whose rewrite is the empty string has no value
   in the bag at all. *)
C29_RewriteWinsOrOptionIsDropped ==
    call.fn = "parse_task_vars"
        => \A o \in Rewritten :
              IF RewriteOf(o) # <<>>
              THEN contains_key(call.res, o) /\ call.res[o] = RewriteOf(o)
              ELSE ~contains_key(call.res, o)

(* The user gave --e u, the option has the default d and the rewrite r: the
   bag has e = r *)
C29_Witness ==
    /\ call.fn = "parse_task_vars"
    /\ N_e \in Rewritten
    /\ RewriteOf(N_e) = <<"r">>
    /\ GivenByUser(N_e)
    /\ config[call.arg].options[N_e].default = Some(<<"d">>)
    /\ call.res = Bag2(N_k, <<"0">>, N_e, <<"r">>)

----------------------------------------------------------------------------
(* Value chaining *)

(* The value is one placeholder and nothing else *)
IsPlaceholder(v) ==
    /\ Len(v) >= 4
    /\ HasPlaceholderAt(v, 1)
    /\ ClosingBrace(v, 1) = Len(v)

NoChain == [chain |-> FALSE, len |-> 0, val |-> <<>>]

(* One name further along the chain of vars: w is the name reached, the names
   met before it, and what the walk found when it is over. It is no chain
   when a name is missing or met again, or when a value is neither one
   placeholder nor placeholder-free *)
ChainStep(w) ==
    IF w.n \in w.met \/ w.n \notin DOMAIN ctx.vars
    THEN [w EXCEPT !.done = TRUE, !.found = NoChain]
    ELSE IF PlaceholderFree(ctx.vars[w.n])
    THEN [w EXCEPT !.done = TRUE,
                   !.found = [chain |-> TRUE, len |-> Cardinality(w.met) + 1,
                              val |-> ctx.vars[w.n]]]
    ELSE IF IsPlaceholder(ctx.vars[w.n])
    THEN [w EXCEPT !.n = NameAt(ctx.vars[w.n], 1), !.met = w.met \cup {w.n}]
    ELSE [w EXCEPT !.done = TRUE, !.found = NoChain]

RECURSIVE ChainSteps(_, _, _)
ChainSteps(lo, hi, w) ==
    IF lo > hi \/ w.done THEN w
    ELSE IF lo = hi THEN ChainStep(w)
    ELSE ChainSteps(((lo + hi) \div 2) + 1, hi, ChainSteps(lo, (lo + hi) \div 2, w))

(* The chain of vars that starts at the name n: how many names it has and the
   value it ends in *)
ChainFrom(n) ==
    ChainSteps(1, Cardinality(DOMAIN ctx.vars) + 1,
               [n |-> n, met |-> {}, done |-> FALSE, found |-> NoChain]).found

(* The text is "${n1}" and vars has a chain from n1 on *)
TextChain ==
    IF IsPlaceholder(text) THEN ChainFrom(NameAt(text, 1)) ELSE NoChain

(* C31 as stated: if vars maps a chain of pairwise distinct names n1 -> "${n2}",
   ..., nk -> v with v placeholder-free, then interpolate("${n1}", vars)
   returns v. *)
C31_ChainResolvesToItsEnd ==
    (Interpolated /\ TextChain.chain)
        => (call.res.ok /\ call.res.val = TextChain.val)

(* C31, amended: a chain of at most 100 pairwise distinct names resolves to
   the value it ends in; a longer chain fails with RecursiveInterpolation. *)
C31_ChainWithinCeilingResolves ==
    (Interpolated /\ TextChain.chain)
        => IF TextChain.len <= RecursionCeiling
           THEN call.res.ok /\ call.res.val = TextChain.val
           ELSE ~call.res.ok /\ call.res.err = "RecursiveInterpolation"

(* "${001}" with the chain 001 -> "${002}" -> "${003}" -> "v" gives "v" *)
C31_Witness ==
    /\ Interpolated
    /\ text = Placeholder(Numbered(1))
    /\ ctx.vars = Chain(3)
    /\ TextChain.chain
    /\ TextChain.len = 3
    /\ call.res.ok
    /\ call.res.val = <<"v">>

----------------------------------------------------------------------------
(* Step k of the history is a Command condition of the main path whose probe
   could not be started: the interpreter was called and check_command
   returned an error *)
ProbeNotSpawned(k) ==
    /\ log[k].kind = "when"
    /\ log[k].path = "run"
    /\ log[k].spawn
    /\ ~log[k].ok

(* C32: a Command condition whose probe cannot be spawned is an error, not a
   false condition: the run-item is not skipped, the main path fails with
   CommandFailed(None) and executes nothing more, a non-empty finally path
   still runs, and execute returns that error. *)
C32_ProbeSpawnFailureIsAnError ==
    \A k \in Steps :
        ProbeNotSpawned(k)
            => /\ result = Err(CommandFailed(NoCode))
               /\ \A j \in (k + 1)..Len(log) : log[j].path = "finally"
               /\ Returned
                     => /\ ret = Err(CommandFailed(NoCode))
                        /\ task.finally # <<>>
                              => \E j \in (k + 1)..Len(log) : log[j].kind = "finally"

(* The probe of the main path could not be started, the finally path ran a
   command, and execute returned CommandFailed(None) *)
C32_Witness ==
    /\ Returned
    /\ \E k \in Steps :
         /\ ProbeNotSpawned(k)
         /\ \E j \in (k + 1)..Len(log) :
              log[j].path = "finally" /\ log[j].kind = "cmd" /\ log[j].ok
    /\ ret = Err(CommandFailed(NoCode))

----------------------------------------------------------------------------
(* Tasks that set and unset a key and ask for it *)

MaxEnvItems == 3

(* A key that is itself a placeholder: "${j}" *)
N_p == Placeholder(N_j)

(* set-environment key: v; set-environment key: null *)
SetItem(key) == Run(<<>>, <<>>, <<>>, Bag1(key, Some(<<"v">>)))
UnsetItem(key) == Run(<<>>, <<>>, <<>>, Bag1(key, None))

(* when: option-set key, env-set key; command c *)
IfSetItem(key) == Run(<<OptionSet(key), EnvSet(key)>>, <<Simple(<<"c">>)>>, <<>>, EmptyMap)

(* when: option-not-set key, env-not-set key; command d *)
IfNotSetItem(key) ==
    Run(<<OptionNotSet(key), EnvNotSet(key)>>, <<Simple(<<"d">>)>>, <<>>, EmptyMap)

EnvLibrary ==
    {SetItem(N_k), UnsetItem(N_k), IfSetItem(N_k), IfNotSetItem(N_k), SetItem(N_p),
     IfSetItem(N_p)}

EnvFinallys ==
    {<<>>, <<IfSetItem(N_k)>>, <<IfNotSetItem(N_k)>>, <<UnsetItem(N_k)>>,
     <<IfSetItem(N_k), UnsetItem(N_k)>>}

InitEnvironment ==
    /\ \E r \in SeqsUpTo(EnvLibrary, MaxEnvItems), f \in EnvFinallys :
         task = Task("main", EmptyMap, r, f)
    /\ \E bag \in {EmptyMap, Bag1(N_j, <<"q">>)} :
         ctx = [vars |-> bag, task_stack |-> <<>>, interpreter |-> Interpreter]
    /\ env \in {EmptyMap, Bag1(N_k, <<"0">>)}
    /\ pc = "entry"
    /\ path = "run"
    /\ item = 0
    /\ idx = 0
    /\ result = Pending
    /\ fres = Pending
    /\ ret = Pending
    /\ log = <<>>
    /\ applied = EmptyMap
    /\ entry = [vars |-> ctx.vars, task_stack |-> ctx.task_stack, env |-> env]
    /\ config = EmptyMap
    /\ cli = Idle
    /\ call = NoCall
    /\ children = <<>>
    /\ text = <<>>

(* The tasks have no subtasks and the call stack is empty *)
NextEnvironment ==
    \/ ExecuteEnter
    \/ EvaluateWhen
    \/ ExecuteCommand
    \/ ApplySetEnvironment
    \/ BeginFinally
    \/ ReturnWithoutFinally
    \/ ReturnAfterFinally

SpecEnvironment == InitEnvironment /\ [][NextEnvironment]_vars

(* The condition evaluated at step j of the history, the map applied at step i *)
ConditionAt(j) == Items(log[j].path)[log[j].item].when[log[j].idx]
MapAt(i) == Items(log[i].path)[log[i].item].set_environment

(* Step i applied an entry for key, and no step between i and j did *)
LastWrite(i, j, key) ==
    /\ i < j
    /\ log[i].kind = "setenv"
    /\ key \in DOMAIN MapAt(i)
    /\ \A h \in (i + 1)..(j - 1) : ~(log[h].kind = "setenv" /\ key \in DOMAIN MapAt(h))

(* Step j evaluated the condition `condition` on key *)
Asked(j, condition, key) ==
    /\ log[j].kind = "when"
    /\ ConditionAt(j).condition = condition
    /\ ConditionAt(j).left = key

(* C33 as stated: after a set-environment entry with a present value for a
   key has been applied, OptionSet and EnvSet of the key evaluate true in
   every later run-item (main path and finally path) until a null entry for
   the key is applied, after which OptionNotSet and EnvNotSet of the key
   evaluate true. *)
C33_SetKeyIsSeenUntilUnset ==
    \A j \in Steps : \A i \in 1..(j - 1) : \A key \in {N_k, N_p} :
        LastWrite(i, j, key)
            => IF MapAt(i)[key].some
               THEN /\ Asked(j, "OptionSet", key) => log[j].val
                    /\ Asked(j, "EnvSet", key) => log[j].val
               ELSE /\ Asked(j, "OptionNotSet", key) => log[j].val
                    /\ Asked(j, "EnvNotSet", key) => log[j].val

(* C33, amended: the same for a key that holds no placeholder; OptionSet and
   OptionNotSet look the key up as it is written, also when it holds a
   placeholder, while EnvSet and EnvNotSet look up the interpolated key. *)
C33_PlainKeyIsSeenUntilUnset ==
    \A j \in Steps : \A i \in 1..(j - 1) : \A key \in {N_k, N_p} :
        LastWrite(i, j, key)
            => IF MapAt(i)[key].some
               THEN /\ Asked(j, "OptionSet", key) => log[j].val
                    /\ (Asked(j, "EnvSet", key) /\ PlaceholderFree(key)) => log[j].val
               ELSE /\ Asked(j, "OptionNotSet", key) => log[j].val
                    /\ (Asked(j, "EnvNotSet", key) /\ PlaceholderFree(key))
                          => log[j].val

(* k was set, seen by option-set and env-set, unset, and then seen by
   option-not-set in the main path and by env-not-set in the finally path *)
C33_Witness ==
    \E i1, j1, j2, i2, j3, j4 \in Steps :
        /\ i1 < j1 /\ j1 < j2 /\ j2 < i2 /\ i2 < j3 /\ j3 < j4
        /\ LastWrite(i1, j1, N_k) /\ MapAt(i1)[N_k].some
        /\ Asked(j1, "OptionSet", N_k) /\ log[j1].val
        /\ Asked(j2, "EnvSet", N_k) /\ log[j2].val
        /\ LastWrite(i2, j3, N_k) /\ ~MapAt(i2)[N_k].some
        /\ Asked(j3, "OptionNotSet", N_k) /\ log[j3].val
        /\ Asked(j4, "EnvNotSet", N_k) /\ log[j4].val /\ log[j4].path = "finally"

----------------------------------------------------------------------------
(* Step i of the history is the last one that applied an entry for key *)
LastWriteOf(i, key) == LastWrite(i, Len(log) + 1, key)

Written(key) == \E i \in Steps : LastWriteOf(i, key)

(* Every key the invocation can know of *)
KnownKeys ==
    DOMAIN ctx.vars \cup DOMAIN env \cup DOMAIN entry.vars \cup DOMAIN entry.env
        \cup DOMAIN task.vars

(* key is in the map m with the value v, or it is in neither *)
SameEntry(m, key, has, v) ==
    IF has THEN key \in DOMAIN m /\ m[key] = v ELSE key \notin DOMAIN m

(* C34: no rollback. From the entry of the task to the return of execute and
   after it, with Ok or with an error, a key whose last set-environment entry
   had a value is in the context bag and in the process environment with the
   value written, a key whose last entry was null is in neither, and a key no
   entry was applied for has in the bag the value merged at entry (the task's
   variable, else the value the context had) and in the environment the value
   it had at entry. *)
C34_NoRollback ==
    (pc # "entry" /\ ~OnStackAtEntry)
        => \A key \in KnownKeys :
              /\ \A i \in Steps :
                    LastWriteOf(i, key)
                        => IF MapAt(i)[key].some
                           THEN /\ key \in DOMAIN ctx.vars
                                /\ key \in DOMAIN env
                                /\ ctx.vars[key] = env[key]
                           ELSE key \notin DOMAIN ctx.vars /\ key \notin DOMAIN env
              /\ ~Written(key)
                    => /\ IF key \in DOMAIN task.vars
                          THEN SameEntry(ctx.vars, key, TRUE, task.vars[key])
                          ELSE IF key \in DOMAIN entry.vars
                          THEN SameEntry(ctx.vars, key, TRUE, entry.vars[key])
                          ELSE SameEntry(ctx.vars, key, FALSE, <<>>)
                       /\ IF key \in DOMAIN entry.env
                          THEN SameEntry(env, key, TRUE, entry.env[key])
                          ELSE SameEntry(env, key, FALSE, <<>>)

(* execute returned an error of the main path after a run-item had set k: k
   is still set, and the task's variable e is still in the bag *)
C34_Witness ==
    /\ Returned
    /\ ~OnStackAtEntry
    /\ ~ret.ok
    /\ MainFailed
    /\ \E i \in Steps : LastWriteOf(i, N_k) /\ MapAt(i)[N_k].some /\ log[i].path = "run"
    /\ N_k \in DOMAIN ctx.vars /\ N_k \in DOMAIN env
    /\ N_k \notin DOMAIN entry.env
    /\ ~Written(N_e)
    /\ N_e \in DOMAIN task.vars
    /\ ctx.vars[N_e] = task.vars[N_e]

----------------------------------------------------------------------------
(* Step n of the history is a step of the finally path that failed *)
FinallyStepFailed(n) == log[n].path = "finally" /\ ~log[n].ok

(* C35: the finally path stops at its first failure: nothing is executed
   after the step of the finally path that failed, so the finally run-items
   after it are not executed, and when execute returns (an error) the call
   stack has been popped. *)
C35_FinallyStopsAtFirstFailure ==
    \A n \in Steps :
        FinallyStepFailed(n)
            => /\ n = Len(log)
               /\ FinallyFailed
               /\ pc \in {"after_finally", "returned"}
               /\ Returned => (~ret.ok /\ ctx.task_stack = entry.task_stack)

(* The command of the first finally run-item failed: the second finally
   run-item, which unsets k, was not executed, k is still set, and execute
   returned the error with the call stack popped *)
C35_Witness ==
    /\ Returned
    /\ Len(task.finally) = 2
    /\ FinallyStepFailed(Len(log))
    /\ log[Len(log)].item = 1
    /\ result.ok
    /\ ret = fres
    /\ ~ret.ok
    /\ N_k \in DOMAIN ctx.vars
    /\ ctx.task_stack = <<>>

----------------------------------------------------------------------------
(* C36 as stated: applying the set-environment map of a run-item is
   order-independent: the context bag and the process environment obtained
   after the item are those every order of iteration over the entries of the
   map gives, also when the value of an entry names another key of the map. *)
C36_SetEnvironmentOrderIndependent ==
    [][pc = "setenv"
         => \A order \in IterationOrders(Items(path)[item].set_environment) :
               apply_set_environment(Items(path)[item].set_environment, order, 1,
                                     [vars |-> ctx.vars, env |-> env])
                   = [vars |-> ctx'.vars, env |-> env']]_vars

----------------------------------------------------------------------------
(* The names a text depends on *)

DefinedNames == DOMAIN ctx.vars \cup DOMAIN env

(* What a defined name is replaced by: vars first, then the environment *)
ValueOf(n) == IF n \in DOMAIN ctx.vars THEN ctx.vars[n] ELSE env[n]

(* The names of the placeholders of the value of a defined name *)
Refs(n) == PlaceholderNames(ValueOf(n), 1)

(* The defined names whose values need only names of the set W *)
Grounded(W) == {n \in DefinedNames : Refs(n) \subseteq W}

(* The names of the set S and the defined names their values need *)
Needed(S) == S \cup UNION {Refs(n) : n \in S \cap DefinedNames}

(* The sets W, Grounded(W), Grounded(Grounded(W)), ... and S, Needed(S), ...
   up to the one that repeats: fx is the set reached *)
FixStep(grow, fx) ==
    IF grow
    THEN IF Needed(fx.set) = fx.set THEN [fx EXCEPT !.done = TRUE]
         ELSE [fx EXCEPT !.set = Needed(fx.set)]
    ELSE IF Grounded(fx.set) = fx.set THEN [fx EXCEPT !.done = TRUE]
         ELSE [fx EXCEPT !.set = Grounded(fx.set)]

RECURSIVE FixSteps(_, _, _, _)
FixSteps(lo, hi, grow, fx) ==
    IF lo > hi \/ fx.done THEN fx
    ELSE IF lo = hi THEN FixStep(grow, fx)
    ELSE FixSteps(((lo + hi) \div 2) + 1, hi, grow,
                  FixSteps(lo, (lo + hi) \div 2, grow, fx))

(* The defined names that resolve to a text without placeholders: every name
   their values need is defined and none of them needs itself *)
WellFounded ==
    FixSteps(1, Cardinality(DefinedNames) + 1, FALSE, [set |-> {}, done |-> FALSE]).set

(* The names of the text and of every value substituted for them *)
NamesNeeded ==
    FixSteps(1, Cardinality(DefinedNames) + 1, TRUE,
             [set |-> PlaceholderNames(text, 1), done |-> FALSE]).set

(* C37 as stated: interpolate_strict succeeds whenever every placeholder name
   of the text, and of every value substituted for it, is defined in vars or
   the environment, with no cyclic reference and at most 100 distinct names:
   it then returns the fully substituted text and not UndefinedVariable. *)
C37_StrictSucceedsWhenAllDefined ==
    (/\ call.fn = "interpolate_strict"
     /\ NamesNeeded \subseteq WellFounded
     /\ Cardinality(NamesNeeded) <= RecursionCeiling)
        => (call.res.ok /\ PlaceholderFree(call.res.val))

-----------------------------------------------------------------------------
(* The builder against the static validator *)

StructuralKinds == {"SourceWithoutTarget", "TargetWithoutSource", "DuplicateNames"}
KnownTypes == {"string", "bool", "boolean", "int", "integer", "float"}
UnknownTyped(t) == {o \in DOMAIN t.options : t.options[o].option_type \notin KnownTypes}

(* C38: Task::from_config and validate_task agree on the structural checks:
   whatever the order in which the maps iterate, the builder rejects a
   description exactly when validate_task rejects it with SourceWithoutTarget,
   TargetWithoutSource or DuplicateNames, the two errors are of the same kind,
   and a description that validate_task rejects and the builder accepts has
   an option whose type is none of string, bool, boolean, int, integer,
   float. *)
C38_BuilderAgreesWithValidator ==
    call.fn = "from_config" =>
        \A keys \in KeyOrders(Described) :
            LET v == validate_task(call.arg, Described, keys)
            IN  /\ ~call.res.ok <=> (~v.ok /\ v.err.kind \in StructuralKinds)
                /\ ~call.res.ok => v.err.kind = call.res.err.kind
                /\ (call.res.ok /\ ~v.ok) => UnknownTyped(Described) # {}

(* The builder has rejected, for a structural fault, a description that has
   an option of an unknown type too *)
C38_Witness ==
    /\ call.fn = "from_config"
    /\ ~call.res.ok
    /\ call.res.err.kind = "TargetWithoutSource"
    /\ SharedNames(Described) # {}
    /\ UnknownTyped(Described) # {}

-----------------------------------------------------------------------------
(* validate_config step by step: the two loops of schema.rs:10-20 and 59-66
   and the recursion of check_task_cycle, one call frame per activation *)

WalkNames == {<<"a">>, <<"b">>, <<"c">>}

(* run: nothing, or one subtask; finally: nothing, or the subtask c *)
WalkRuns == {<<>>} \cup {<<RunItem(<<>>, <<>>, <<SubTaskSimple(t)>>, EmptyMap)>> :
                            t \in WalkNames \cup {Ghost}}
WalkFinallys == {<<>>, <<RunItem(<<>>, <<>>, <<SubTaskDetail(<<"c">>, EmptyMap)>>, EmptyMap)>>}
WalkTasks == {ConfigTask(<<>>, <<>>, EmptyMap, EmptyMap, r, f) :
                 r \in WalkRuns, f \in WalkFinallys}

(* Every task is well-formed, or the task b has a target and no source *)
WalkRegistries ==
    LET sound == [WalkNames -> WalkTasks]
    IN  sound \cup {[reg EXCEPT ![<<"b">>].target = <<"t">>] :
                       reg \in {r \in sound : r[<<"a">>].finally = <<>>}}

(* The activation of check_task_cycle for task_name, at its first line *)
Frame(task_name) == [name |-> task_name, at |-> "entry", names |-> <<>>, k |-> 0]

(* validate_config has returned r *)
validate_config_returns(c, r) ==
    [fn |-> "validate_config", arg |-> <<>>, res |-> r, order |-> c.order, keys |-> c.keys]

(* Mutant: the loop over the tasks stays on the task it has just walked *)
next_task_same(c) == [c EXCEPT !.frames = <<>>]

(* schema.rs:60: the for loop takes the next task of the registry *)
next_task(c) == [c EXCEPT !.i = c.i + 1, !.frames = <<>>]

(* schema.rs:10: validate_config is called; the HashMap has an order *)
ValidateConfigEnter ==
    /\ call = NoCall
    /\ \E order \in IterationOrders(config), keys \in RegistryKeyOrders(config) :
         call' = [fn |-> "validate_config_loop", arg |-> <<>>, res |-> Pending,
                  order |-> order, keys |-> keys, phase |-> "tasks", i |-> 1,
                  visited |-> {}, stack |-> <<>>, frames |-> <<>>]
    /\ UNCHANGED <<task, ctx, env, pc, path, item, idx, result, fres, ret, log, applied,
                   entry, config, cli, text, children>>

(* schema.rs:12-17: validate_task on the next task, or the end of the loop *)
ValidateNextTask ==
    /\ call.fn = "validate_config_loop"
    /\ call.phase = "tasks"
    /\ call' = IF call.i > Len(call.order)
               THEN [call EXCEPT !.phase = "cycles", !.i = 1]
               ELSE LET n == call.order[call.i]
                        v == validate_task(n, config[n], call.keys[n])
                    IN  IF v.ok THEN [call EXCEPT !.i = call.i + 1]
                        ELSE validate_config_returns(call, v)
    /\ UNCHANGED <<task, ctx, env, pc, path, item, idx, result, fres, ret, log, applied,
                   entry, config, cli, text, children>>

(* schema.rs:60-65: check_task_cycle on the next task with a new visited set
   and a new stack, or Ok at the end of the loop *)
DetectNextTask ==
    /\ call.fn = "validate_config_loop"
    /\ call.phase = "cycles"
    /\ call.frames = <<>>
    /\ call' = IF call.i > Len(call.order)
               THEN validate_config_returns(call, Ok)
               ELSE [call EXCEPT !.visited = {}, !.stack = <<>>,
                                 !.frames = <<Frame(call.order[call.i])>>]
    /\ UNCHANGED <<task, ctx, env, pc, path, item, idx, result, fres, ret, log, applied,
                   entry, config, cli, text, children>>

(* The frames without the last one; the walk of a task ends with its first *)
pop_frame(c) ==
    IF Len(c.frames) = 1 THEN next_task(c)
    ELSE [c EXCEPT !.frames = SubSeq(c.frames, 1, Len(c.frames) - 1)]

(* schema.rs:75-93: the first lines of check_task_cycle *)
CheckTaskCycleEnter ==
    /\ call.fn = "validate_config_loop"
    /\ call.frames # <<>>
    /\ call.frames[Len(call.frames)].at = "entry"
    /\ LET top == Len(call.frames)
           task_name == call.frames[top].name
       IN  call' =
             IF \E a \in 1..Len(call.stack) : call.stack[a] = task_name
             THEN validate_config_returns(
                      call, Err(CircularDependency(cycle_path(call.stack, task_name))))
             ELSE IF task_name \in call.visited THEN pop_frame(call)
             ELSE IF ~contains_key(config, task_name)
             THEN validate_config_returns(call, Err(TaskNotFound(task_name)))
             ELSE [call EXCEPT !.stack = Append(call.stack, task_name),
                               !.frames[top] = [name |-> task_name, at |-> "subtasks",
                                                names |-> task_subtasks(config[task_name]),
                                                k |-> 1]]
    /\ UNCHANGED <<task, ctx, env, pc, path, item, idx, result, fres, ret, log, applied,
                   entry, config, cli, text, children>>

(* schema.rs:108-110 and 127-129: the call for the next subtask *)
CheckNextSubtask ==
    /\ call.fn = "validate_config_loop"
    /\ call.frames # <<>>
    /\ LET top == Len(call.frames)
           f == call.frames[top]
       IN  /\ f.at = "subtasks"
           /\ f.k <= Len(f.names)
           /\ call' = [call EXCEPT !.frames =
                          Append([call.frames EXCEPT ![top].k = f.k + 1], Frame(f.names[f.k]))]
    /\ UNCHANGED <<task, ctx, env, pc, path, item, idx, result, fres, ret, log, applied,
                   entry, config, cli, text, children>>

(* schema.rs:133-136: every subtask is checked; the name leaves the stack
   and is visited *)
CheckTaskCycleReturn ==
    /\ call.fn = "validate_config_loop"
    /\ call.frames # <<>>
    /\ LET top == Len(call.frames)
           f == call.frames[top]
       IN  /\ f.at = "subtasks"
           /\ f.k > Len(f.names)
           /\ call' = pop_frame([call EXCEPT
                                    !.stack = SubSeq(call.stack, 1, Len(call.stack) - 1),
                                    !.visited = call.visited \cup {f.name}])
    /\ UNCHANGED <<task, ctx, env, pc, path, item, idx, result, fres, ret, log, applied,
                   entry, config, cli, text, children>>

InitValidateLoop ==
    /\ NotExecuting
    /\ config \in WalkRegistries
    /\ cli = Idle
    /\ call = NoCall
    /\ children = <<>>
    /\ text = <<>>

NextValidateLoop ==
    \/ ValidateConfigEnter
    \/ ValidateNextTask
    \/ DetectNextTask
    \/ CheckTaskCycleEnter
    \/ CheckNextSubtask
    \/ CheckTaskCycleReturn

(* validate_config is sequential code: a step that can be made is made *)
SpecValidateLoop == InitValidateLoop /\ [][NextValidateLoop]_vars /\ WF_vars(NextValidateLoop)

ValidateConfigReturned == call.fn = "validate_config"

(* The task n of the registry has the subtask m *)
RefersTo(n, m) ==
    \E k \in 1..Len(task_subtasks(config[n])) : task_subtasks(config[n])[k] = m

(* C39: validate_config terminates on every registry, with self-references,
   cycles, sub-graphs reached twice and names of missing tasks: once called
   it returns, and what it returns is Ok or the first error of the
   validation of the tasks and then of the walk of the tasks in order. *)
C39_ValidateConfigTerminates ==
    (call.fn = "validate_config_loop")
        ~> (/\ ValidateConfigReturned
            /\ call.res = validate_config(config, call.order, call.keys))

(* validate_config has returned Ok on a registry in which c is reached from
   a and from b *)
C39_Witness ==
    /\ ValidateConfigReturned
    /\ call.res.ok
    /\ RefersTo(<<"a">>, <<"b">>)
    /\ RefersTo(<<"a">>, <<"c">>)
    /\ RefersTo(<<"b">>, <<"c">>)

-----------------------------------------------------------------------------
(* The application runs a task whose run items ask for the option e *)

MaxOptionItems == 2

(* when: option-set e, command c; when: option-not-set e, command d;
   set-environment e: null *)
OptionIfSet ==
    RunItem(<<[WhenFields EXCEPT !.option_set = Some(N_e)]>>, <<CommandSimple(<<"c">>)>>,
            <<>>, EmptyMap)
OptionIfNotSet ==
    RunItem(<<[WhenFields EXCEPT !.option_not_set = Some(N_e)]>>,
            <<CommandSimple(<<"d">>)>>, <<>>, EmptyMap)
OptionUnset == RunItem(<<>>, <<>>, <<>>, Bag1(N_e, None))

OptionRuns == SeqsUpTo({OptionIfSet, OptionIfNotSet, OptionUnset}, MaxOptionItems)
OptionFinallys == {<<>>, <<OptionIfSet>>}

InitOptions ==
    /\ task = Task("none", EmptyMap, <<>>, <<>>)
    /\ ctx = [vars |-> EmptyMap, task_stack |-> <<>>, interpreter |-> Interpreter]
    /\ env \in {EmptyMap, Bag1(N_j, <<"v">>)}
    /\ pc = "idle"
    /\ path = "run"
    /\ item = 0
    /\ idx = 0
    /\ result = Pending
    /\ fres = Pending
    /\ ret = Pending
    /\ log = <<>>
    /\ applied = EmptyMap
    /\ entry = [vars |-> EmptyMap, task_stack |-> <<>>, env |-> EmptyMap]
    /\ \E opt \in DeclaredOptions, r \in OptionRuns, f \in OptionFinallys :
         config = [n \in {N_m} |->
                      ConfigTask(<<>>, <<>>, EmptyMap, Bag1(N_e, opt), r, f)]
    /\ \E m \in GivenMatches :
         cli = [pc |-> "start", invoked |-> Some([name |-> N_m, matches |-> m]),
                result |-> Pending]
    /\ call = NoCall
    /\ children = <<>>
    /\ text = <<>>

(* The task has no subtasks *)
NextOptions ==
    \/ AppNew
    \/ AppRun
    \/ ExecuteEnter
    \/ EvaluateWhen
    \/ ExecuteCommand
    \/ ApplySetEnvironment
    \/ BeginFinally
    \/ ReturnWithoutFinally
    \/ ReturnAfterFinally
    \/ AppRunReturn

SpecOptions == InitOptions /\ [][NextOptions]_vars

(* The options of the invoked task, and what the command line gave *)
Invoked == config[cli.invoked.val.name]
Given == cli.invoked.val.matches
IsBool(o) == Invoked.options[o].option_type \in {"bool", "boolean"}
PlainBools == {o \in DOMAIN Invoked.options : IsBool(o) /\ ~Invoked.options[o].rewrite.some}

(* The final value of a non-boolean option as the documentation gives it:
   the rewrite, else the value given, else the default, else the environment
   variable at the start of the application, else the empty string *)
DocumentedFinal(o) ==
    LET opt == Invoked.options[o]
    IN  IF opt.rewrite.some THEN opt.rewrite.val
        ELSE IF contains_key(Given.values, o) THEN Given.values[o]
        ELSE IF opt.default.some THEN opt.default.val
        ELSE IF opt.environment.some /\ contains_key(entry.env, opt.environment.val)
             THEN entry.env[opt.environment.val]
        ELSE <<>>

(* The bag parse_task_vars built is the one the task carries *)
BagBuilt == cli.pc \in {"executing", "exit"} /\ task.name # "none"

(* What C40 says of the bag *)
BagAsDocumented ==
    BagBuilt =>
        \A o \in DOMAIN Invoked.options :
            IF o \in PlainBools
            THEN /\ contains_key(task.vars, o)
                 /\ task.vars[o] = IF o \in Given.flags THEN <<"t", "r", "u", "e">>
                                   ELSE <<"f", "a", "l", "s", "e">>
            ELSE IsBool(o) \/ (contains_key(task.vars, o) <=> DocumentedFinal(o) # <<>>)

(* No set-environment entry for key was applied before step j, or the last
   one had a value *)
NotUnsetBefore(j, key) ==
    \A i \in 1..(j - 1) : LastWrite(i, j, key) => MapAt(i)[key].some

(* C40 as stated: a boolean option without rewrite is always in the bag,
   "true" if the flag was passed and "false" otherwise, so that during the
   execution of the task OptionSet of it is true and OptionNotSet false; a
   non-boolean option is in the bag iff its final value is not empty. *)
C40_BoolOptionAlwaysSet ==
    /\ BagAsDocumented
    /\ \A j \in Steps : \A o \in PlainBools :
         /\ Asked(j, "OptionSet", o) => log[j].val
         /\ Asked(j, "OptionNotSet", o) => ~log[j].val

(* C40, amended: the same of the bag; OptionSet of the boolean option is true
   and OptionNotSet false in the conditions evaluated while no
   set-environment entry has removed the option: a null entry for its name
   takes it out of the bag for the rest of the execution. *)
C40_BoolOptionSetUntilUnset ==
    /\ BagAsDocumented
    /\ \A j \in Steps : \A o \in PlainBools :
         NotUnsetBefore(j, o)
            => /\ Asked(j, "OptionSet", o) => log[j].val
               /\ Asked(j, "OptionNotSet", o) => ~log[j].val

(* The flag was not passed: the bag has e = false, option-set e held and
   option-not-set e did not *)
C40_Witness ==
    /\ BagBuilt
    /\ N_e \in PlainBools
    /\ N_e \notin Given.flags
    /\ task.vars[N_e] = <<"f", "a", "l", "s", "e">>
    /\ \E j1, j2 \in Steps :
         /\ Asked(j1, "OptionSet", N_e) /\ log[j1].val
         /\ Asked(j2, "OptionNotSet", N_e) /\ ~log[j2].val

====
